---- MODULE Spec2Model ----
(***************************************************************************)
(* Governance layer of the multi-agent advisor backend: sliding-window     *)
(* rate limiting, budget admission and spend recording, the middleware     *)
(* stack in front of POST /evaluate, and the per-request event channel.    *)
(* Money is counted in integer cost units, time in integer seconds (rate   *)
(* limiter) and integer days (budget periods).                             *)
(***************************************************************************)
EXTENDS Integers, Sequences, FiniteSets, TLC

(***************************************************************************)
(* Bounds of the model.                                                    *)
(***************************************************************************)
MaxTime == 4          \* the clock of the rate limiter runs over 0..MaxTime
MaxCalls == 5         \* check_rate_limit calls in one run

(* Rate-limit rules, scaled down from config/rate_limits.py so that the    *)
(* windows fit into 0..MaxTime.                                            *)
IpBurstRequests == 2
IpBurstWindow == 2
IpHourRequests == 3
IpHourWindow == 4
HealthRequests == 3
EvalBurstRequests == 1
EvalHourRequests == 2
SessionHourRequests == 2
SessionDayRequests == 3
SessionDayWindow == 8
GlobalRequests == 4

(* Budget ledger: money in whole cost units, budget periods in days.       *)
MaxDay == 2           \* utcnow().date() runs over 0..MaxDay
DaysPerMonth == 2     \* days of a calendar month of the model
MaxCost == 2          \* the largest cost or estimate of one call
MaxSpent == 3         \* spend is applied while the counters stay <= MaxSpent
MaxEvents == 1        \* rows of cost_events
TierDailyLimit == 2   \* BUDGET_TIERS[tier].daily_usd of the model's tier
TierMonthlyLimit == 3 \* BUDGET_TIERS[tier].monthly_usd
TierHourlyLimit == 1  \* BUDGET_TIERS[tier].hourly_usd

None == "none"

(***************************************************************************)
(* State.                                                                  *)
(***************************************************************************)
VARIABLES
    now,        \* time.time(), in whole seconds
    backend,    \* the storage create_rate_limit_storage returned: "memory" | "redis"
    memStore,   \* InMemoryRateLimitStorage.storage: key -> deque of timestamps
    zsets,      \* the Redis sorted sets: key -> set of members (timestamps)
    admitted,   \* history: <<identifier, endpoint, window, ts>> -> admitted calls
    lastRL,     \* what the last check_rate_limit returned
    calls,      \* number of check_rate_limit calls so far
    race,       \* two concurrent RedisRateLimitStorage.increment_and_check calls:
                \* process -> [pc, current_time, current_count, allowed]
    today,      \* datetime.utcnow().date(), as a day number
    budgets,    \* table user_budgets: user_id -> row, or NoRow
    ledger,     \* table cost_events, in insertion order
    lastAfford, \* the last can_user_afford_this_request call and what it returned
    lastSpend,  \* the last spend-recording call: its arguments, the row before and after
    spendRace,  \* two concurrent spend-recording calls on one user's row:
                \* [txn: process -> [pc, op, cost, row], lock, start]
    gov,        \* the HTTP request travelling through the middleware stack to the router
    wf,         \* the background run of the advisor graph: [node, pc, market_retries]
    inv,        \* the wrapped crew calls made so far, by invocation number
    marker,     \* _current_agent_invocation: context -> invocation number, or None
    published,  \* the publish_event calls, in program order
    pending,    \* events handed to a publisher thread that has not published yet
    channel,    \* what reached the Redis channel events:{request_id}, in order
    usage,      \* the cost recording of the running workflows: the cached LLM's
                \* callback handler, each request's position, the cost events' origin
    rc,         \* the request_context ContextVar: the dict objects and what each
                \* execution chain is bound to and holds
    sse,        \* one GET /events/{request_id} stream: [pc, subscribed, seen, ...]
    fn,         \* one call of a function of the cost estimation: its arguments and
                \* what it returned
    wrap        \* CrewFactory's crew cache and the wrappers around a crew's kickoff

rlVars == <<now, backend, memStore, zsets, admitted, lastRL, calls>>

raceVars == <<race>>

budVars == <<today, budgets, ledger, lastAfford, lastSpend>>

spendVars == <<spendRace>>

govVars == <<gov>>

evVars == <<wf, inv, marker, published, pending, channel>>

usageVars == <<usage>>

rcVars == <<rc>>

sseVars == <<sse>>

fnVars == <<fn>>

wrapVars == <<wrap>>

vars == <<now, backend, memStore, zsets, admitted, lastRL, calls, race,
          today, budgets, ledger, lastAfford, lastSpend,
          spendRace, gov, wf, inv, marker, published, pending, channel,
          usage, rc, sse, fn, wrap>>

\* what the actions of one part leave alone
restRL == <<budVars, spendVars, govVars, evVars, usageVars, rcVars, sseVars, fnVars, wrapVars>>

restBud == <<rlVars, raceVars, spendVars, govVars, evVars, usageVars, rcVars, sseVars, fnVars, wrapVars>>

(***************************************************************************)
(* Small helpers on finite maps and bags.                                  *)
(***************************************************************************)
Lookup(f, k, default) == IF k \in DOMAIN f THEN f[k] ELSE default

Put(f, k, v) == [x \in DOMAIN f \cup {k} |-> IF x = k THEN v ELSE f[x]]

BagAdd(b, e) == [x \in DOMAIN b \cup {e} |-> Lookup(b, x, 0) + (IF x = e THEN 1 ELSE 0)]

EmptyMap == [x \in {} |-> 0]

Max(a, b) == IF a >= b THEN a ELSE b

Min(a, b) == IF a <= b THEN a ELSE b

SetMin(S) == CHOOSE x \in S : \A y \in S : x <= y

(***************************************************************************)
(* Values of the parts at rest: every specification below runs one part    *)
(* of the system and leaves the others in these states.                    *)
(***************************************************************************)
Users == {"u1", "u2"}

NoRow == [exists |-> FALSE]

\* estimated_cost / cost_usd is None: a value no cost takes
NoEstimate == -(MaxCost + 1)

NoAfford == [checked |-> FALSE, user |-> None, est |-> NoEstimate, row |-> NoRow,
             allowed |-> FALSE, reason |-> None]

NoSpend == [op |-> None, user |-> None, cost |-> 0, before |-> NoRow, after |-> NoRow,
            day |-> 0, applied |-> FALSE, result |-> None]

NoHeaders == [limit |-> 0, remaining |-> 0, reset |-> 0, retry_after |-> 0]

NoRL == [allowed |-> TRUE, headers |-> NoHeaders, failed |-> 0, at |-> 0,
         ip |-> None, session |-> None, endpoint |-> None, store_up |-> TRUE]

RaceProcs == {"p1", "p2"}

RaceIdle == [p \in RaceProcs |-> [pc |-> "idle", current_time |-> 0, current_count |-> 0,
                                  allowed |-> FALSE]]

RLQuiet ==
    /\ now = 0
    /\ backend = "memory"
    /\ memStore = EmptyMap
    /\ zsets = EmptyMap
    /\ admitted = EmptyMap
    /\ lastRL = NoRL
    /\ calls = 0
    /\ race = RaceIdle

SpendRaceIdle ==
    [txn |-> [p \in RaceProcs |-> [pc |-> "idle", op |-> None, cost |-> 0, row |-> NoRow]],
     lock |-> None, start |-> NoRow]

SpendQuiet == spendRace = SpendRaceIdle

GovIdle ==
    [pc |-> "idle", method |-> None, path |-> None, token_user |-> None, has_client |-> FALSE,
     est |-> NoEstimate, sanitize |-> None, body_request_id |-> FALSE, db_fault |-> "none",
     stages |-> <<>>, budget_checked |-> FALSE, budget_allowed |-> FALSE,
     budget_raised |-> FALSE,
     rate_checked |-> FALSE, rate_allowed |-> FALSE, workflow_started |-> FALSE,
     status |-> 0,
     inbound_id |-> None, cost_info_due |-> FALSE,
     resp_request_id |-> None, resp_cost_info |-> FALSE, resp_budget_exceeded |-> FALSE]

GovQuiet == gov = GovIdle

\* ContextVar("current_agent_invocation", default=None); invocations count from 1
NoInvocation == 0

WfIdle == [node |-> "start", pc |-> "idle", market_retries |-> 0]

EvQuiet ==
    /\ wf = WfIdle
    /\ inv = <<>>
    /\ marker = [c \in {0} |-> NoInvocation]
    /\ published = <<>>
    /\ pending = {}
    /\ channel = <<>>

\* no workflow is recording costs, no request context exists, no stream is open
\* LLMManager._llm_instances holds no LLM yet, so no _CostTrackingHandler exists
NoHandler == [exists |-> FALSE]

\* main.startup_event pre-initialises the agents outside any request: the
\* handler of an LLM built there holds no user and no request
StartupHandler == [exists |-> TRUE, user_id |-> None, request_id |-> None]

UsageIdle == [handler |-> NoHandler, runs |-> <<>>, log |-> <<>>, build |-> <<>>, faults |-> 0,
              calls |-> 0]

RcIdle == [heap |-> <<>>, bound |-> <<>>, held |-> <<>>, snap |-> <<>>, ch |-> <<>>]

SseIdle == [pc |-> "idle", client |-> "unset", cancels |-> FALSE, buffer |-> <<>>,
            frames |-> 0, complete_sent |-> FALSE, disconnected |-> FALSE,
            published |-> 0, sentinel_published |-> FALSE, sentinel_received |-> FALSE]

\* no function of the cost estimation has been called
FnIdle == [op |-> None]

\* CrewFactory._crews and _wrapped_instances are empty
WrapIdle == [pc |-> <<>>]

MoreQuiet ==
    /\ fn = FnIdle
    /\ wrap = WrapIdle

AuxQuiet ==
    /\ usage = UsageIdle
    /\ rc = RcIdle
    /\ sse = SseIdle
    /\ MoreQuiet

BudQuiet ==
    /\ today = 0
    /\ budgets = [u \in Users |-> NoRow]
    /\ ledger = <<>>
    /\ lastAfford = NoAfford
    /\ lastSpend = NoSpend

(***************************************************************************)
(* config/rate_limits.py                                                   *)
(***************************************************************************)
Rule(n, w) == [requests |-> n, window_seconds |-> w]

ip_limits == <<Rule(IpBurstRequests, IpBurstWindow), Rule(IpHourRequests, IpHourWindow)>>

session_limits == <<Rule(SessionHourRequests, IpHourWindow), Rule(SessionDayRequests, SessionDayWindow)>>

global_limits == <<Rule(GlobalRequests, IpBurstWindow)>>

Endpoints == {"/evaluate", "/api/evaluate", "/health"}

get_limits_for_endpoint(endpoint) ==
    CASE endpoint = "/health" -> <<Rule(HealthRequests, IpBurstWindow)>>
      [] endpoint = "/api/evaluate" ->
            <<Rule(EvalBurstRequests, IpBurstWindow), Rule(EvalHourRequests, IpHourWindow)>>
      [] OTHER -> ip_limits

(***************************************************************************)
(* middleware/rate_limiter.py: keys                                        *)
(***************************************************************************)
\* endpoint.replace("/", "_").replace(":", "_")
safe_endpoint(endpoint) ==
    CASE endpoint = "/evaluate" -> "_evaluate"
      [] endpoint = "/api/evaluate" -> "_api_evaluate"
      [] endpoint = "/health" -> "_health"
      [] OTHER -> endpoint

\* window_id = int(time.time() // window_seconds): the bucket is part of the key
window_id(t, window_seconds) == t \div window_seconds

_build_redis_key(identifier, endpoint, window_seconds, t) ==
    <<identifier, safe_endpoint(endpoint), window_seconds, window_id(t, window_seconds)>>

StartsWithApiEvaluate(endpoint) == endpoint = "/api/evaluate"

(***************************************************************************)
(* utils/rate_limit_storage.py                                             *)
(***************************************************************************)
RECURSIVE DropExpired(_, _)
\* while queue and queue[0] < window_start: queue.popleft()
DropExpired(queue, window_start) ==
    IF queue # <<>> /\ Head(queue) < window_start
    THEN DropExpired(Tail(queue), window_start)
    ELSE queue

MemIncrementAndCheck(store, key, window_seconds, limit, t) ==
    LET queue == DropExpired(Lookup(store, key, <<>>), t - window_seconds)
    IN  IF Len(queue) < limit
        THEN [store |-> Put(store, key, Append(queue, t)),
              count |-> Len(queue) + 1, allowed |-> TRUE]
        ELSE [store |-> Put(store, key, queue),
              count |-> Len(queue), allowed |-> FALSE]

MemGetResetTime(store, key, window_seconds, t) ==
    LET queue == Lookup(store, key, <<>>)
    IN  IF queue # <<>> THEN Head(queue) + window_seconds ELSE t + window_seconds

\* pipe.zremrangebyscore(key, 0, window_start): scores <= window_start go
ZRemRangeByScore(zset, window_start) == {m \in zset : m[1] > window_start}

\* zadd(key, {str(current_time): current_time}): member str(current_time), score
\* current_time. The clock of the model is in whole seconds while time.time() is a
\* float, so the members of two calls in the same second differ: uid tells them apart.
ZAdd(zset, current_time, uid) == zset \cup {<<current_time, uid>>}

RedisIncrementAndCheck(z, key, window_seconds, limit, t, uid) ==
    LET kept == ZRemRangeByScore(Lookup(z, key, {}), t - window_seconds)
        current_count == Cardinality(kept)
    IN  IF current_count < limit
        THEN [store |-> Put(z, key, ZAdd(kept, t, uid)),
              count |-> current_count + 1, allowed |-> TRUE]
        ELSE [store |-> Put(z, key, kept),
              count |-> current_count, allowed |-> FALSE]

RedisGetResetTime(z, key, window_seconds, t) ==
    LET zset == Lookup(z, key, {})
    IN  IF zset # {} THEN SetMin({m[1] : m \in zset}) + window_seconds
        ELSE t + window_seconds

\* the opposite policy, which the storage does not follow: a failing store
\* call answers (0, False)
RedisFailClosed(st) == [st |-> st, count |-> 0, allowed |-> FALSE]

\* RedisRateLimitStorage.increment_and_check when the client is missing or a
\* store call raises: nothing is stored and the call answers (0, True)
RedisFailOpen(st) == [st |-> st, count |-> 0, allowed |-> TRUE]

\* the storage object the limiter holds, whichever class it is; st.up says
\* whether the Redis server answers during this call
StorageIncrementAndCheck(st, key, window_seconds, limit, t, uid) ==
    IF st.kind = "memory"
    THEN LET r == MemIncrementAndCheck(st.mem, key, window_seconds, limit, t)
         IN  [st |-> [st EXCEPT !.mem = r.store], count |-> r.count, allowed |-> r.allowed]
    ELSE IF ~st.up THEN RedisFailOpen(st)
    ELSE LET r == RedisIncrementAndCheck(st.z, key, window_seconds, limit, t, uid)
         IN  [st |-> [st EXCEPT !.z = r.store], count |-> r.count, allowed |-> r.allowed]

StorageGetResetTime(st, key, window_seconds, t) ==
    IF st.kind = "memory"
    THEN MemGetResetTime(st.mem, key, window_seconds, t)
    ELSE IF ~st.up THEN t + window_seconds
    ELSE RedisGetResetTime(st.z, key, window_seconds, t)

(***************************************************************************)
(* middleware/rate_limiter.py: check_rate_limit                            *)
(***************************************************************************)
_build_rate_limit_headers(limit, current, reset_time, t) ==
    [limit |-> limit, remaining |-> Max(0, limit - current),
     reset |-> reset_time, retry_after |-> Max(1, reset_time - t)]

ChainOf(identifier, rules) ==
    [i \in 1..Len(rules) |-> [identifier |-> identifier, rule |-> rules[i]]]

\* another order, which the limiter does not use: the global rules first
RuleChainGlobalFirst(ip, session, endpoint) ==
    ChainOf("global:all", global_limits)
    \o ChainOf(ip, get_limits_for_endpoint(endpoint))
    \o (IF StartsWithApiEvaluate(endpoint) THEN ChainOf(session, session_limits) ELSE <<>>)

\* the rules one request is checked against, in the order of the three loops
RuleChain(ip, session, endpoint) ==
    ChainOf(ip, get_limits_for_endpoint(endpoint))
    \o (IF StartsWithApiEvaluate(endpoint) THEN ChainOf(session, session_limits) ELSE <<>>)
    \o ChainOf("global:all", global_limits)

RECURSIVE RunChain(_, _, _, _, _, _, _)
RunChain(st, chain, i, endpoint, t, uid, admits) ==
    IF i > Len(chain)
    THEN [st |-> st, allowed |-> TRUE, headers |-> NoHeaders, admits |-> admits, failed |-> 0]
    ELSE LET c == chain[i]
             w == c.rule.window_seconds
             key == _build_redis_key(c.identifier, endpoint, w, t)
             r == StorageIncrementAndCheck(st, key, w, c.rule.requests, t, uid)
         IN  IF ~r.allowed
             THEN [st |-> r.st, allowed |-> FALSE,
                   headers |-> _build_rate_limit_headers(c.rule.requests, r.count,
                                  StorageGetResetTime(r.st, key, w, t), t),
                   admits |-> admits, failed |-> i]
             ELSE RunChain(r.st, chain, i + 1, endpoint, t, uid,
                           Append(admits, <<c.identifier, endpoint, w, t>>))

check_rate_limit(st, ip, session, endpoint, t, uid) ==
    RunChain(st, RuleChain(ip, session, endpoint), 1, endpoint, t, uid, <<>>)

RECURSIVE BagAddAll(_, _)
BagAddAll(b, s) == IF s = <<>> THEN b ELSE BagAddAll(BagAdd(b, Head(s)), Tail(s))

(***************************************************************************)
(* Rate limiter: the sequential system (one process, one storage).         *)
(***************************************************************************)
ClientIps == {"ip:a"}
Sessions == {"session:s"}

\* create_rate_limit_storage: the Redis class when the shared client answered
\* at construction, the in-memory class otherwise
StorageWith(up) == [kind |-> backend, mem |-> memStore, z |-> zsets, up |-> up]

Storage == StorageWith(TRUE)

InitRL ==
    /\ AuxQuiet
    /\ BudQuiet
    /\ SpendQuiet
    /\ GovQuiet
    /\ EvQuiet
    /\ race = RaceIdle
    /\ now = 0
    /\ backend \in {"memory", "redis"}
    /\ memStore = EmptyMap
    /\ zsets = EmptyMap
    /\ admitted = EmptyMap
    /\ lastRL = NoRL
    /\ calls = 0

Tick ==
    /\ now < MaxTime
    /\ now' = now + 1
    /\ UNCHANGED <<backend, memStore, zsets, admitted, lastRL, calls, race>>
    /\ UNCHANGED restRL

CheckRateLimit(ip, session, endpoint, up) ==
    LET r == check_rate_limit(StorageWith(up), ip, session, endpoint, now, calls)
    IN  /\ calls < MaxCalls
        /\ (backend = "memory" => up)
        /\ calls' = calls + 1
        /\ memStore' = r.st.mem
        /\ zsets' = r.st.z
        /\ admitted' = BagAddAll(admitted, r.admits)
        /\ lastRL' = [allowed |-> r.allowed, headers |-> r.headers, failed |-> r.failed,
                      at |-> now, ip |-> ip, session |-> session,
                      endpoint |-> endpoint, store_up |-> up]
        /\ UNCHANGED <<now, backend, race>>
        /\ UNCHANGED restRL

NextRL ==
    \/ Tick
    \/ \E ip \in ClientIps, s \in Sessions, e \in Endpoints :
          CheckRateLimit(ip, s, e, TRUE)

SpecRL == InitRL /\ [][NextRL]_vars

\* the same limiter on one endpoint, with a Redis server that may stop
\* answering for the length of a call
NextRLDown ==
    \/ Tick
    \/ \E ip \in ClientIps, s \in Sessions, up \in BOOLEAN :
          CheckRateLimit(ip, s, "/health", up)

SpecRLDown == InitRL /\ [][NextRLDown]_vars

\* the same limiter on the governed evaluate endpoint, called by two clients
\* that share one session
ChainIps == {"ip:a", "ip:b"}

NextRLChain ==
    \/ Tick
    \/ \E ip \in ChainIps, s \in Sessions : CheckRateLimit(ip, s, "/api/evaluate", TRUE)

SpecRLChain == InitRL /\ [][NextRLChain]_vars

(***************************************************************************)
(* Claims about the rate limiter.                                          *)
(***************************************************************************)
RECURSIVE AdmittedBetween(_, _, _, _, _)
\* admitted calls of one key with lo < timestamp <= hi
AdmittedBetween(identifier, endpoint, window, lo, hi) ==
    IF hi <= lo \/ hi < 0 THEN 0
    ELSE Lookup(admitted, <<identifier, endpoint, window, hi>>, 0)
         + AdmittedBetween(identifier, endpoint, window, lo, hi - 1)

\* C1: for one client and endpoint and a rule (L, W), the calls that
\* increment_and_check admits never include more than L with timestamps inside
\* one interval of W seconds, bursts across a window bucket included.
C1_AtMostLimitPerWindow ==
    \A ip \in ClientIps, e \in Endpoints :
        \A i \in 1..Len(get_limits_for_endpoint(e)) :
            LET rule == get_limits_for_endpoint(e)[i]
            IN  \A t \in 0..MaxTime :
                    AdmittedBetween(ip, e, rule.window_seconds,
                                    t - rule.window_seconds, t) <= rule.requests


(***************************************************************************)
(* Two concurrent increment_and_check calls on one Redis key               *)
(* (utils/rate_limit_storage.py:85-110). The pipeline (zremrangebyscore +  *)
(* zcard) is one MULTI/EXEC round trip; zadd is a second, separate command *)
(* sent after the Python comparison. expire only refreshes the key's TTL   *)
(* (window + 60 s, beyond MaxTime) and is left out.                        *)
(***************************************************************************)
RaceRule == ip_limits[2]

RaceKey == _build_redis_key("ip:a", "/evaluate", RaceRule.window_seconds, 0)

Prefilled(k) == {<<0, 0 - j>> : j \in 1..k}

RaceUid(p) == IF p = "p1" THEN 1 ELSE 2

InitRace ==
    /\ AuxQuiet
    /\ BudQuiet
    /\ SpendQuiet
    /\ GovQuiet
    /\ EvQuiet
    /\ now = 0
    /\ backend = "redis"
    /\ memStore = EmptyMap
    /\ \E k \in 0..RaceRule.requests : zsets = Put(EmptyMap, RaceKey, Prefilled(k))
    /\ admitted = EmptyMap
    /\ lastRL = NoRL
    /\ calls = 0
    /\ race = RaceIdle

\* current_time = time.time(); window_start = current_time - window_seconds
RaceReadClock(p) ==
    /\ race[p].pc = "idle"
    /\ race' = [race EXCEPT ![p].pc = "timed", ![p].current_time = now]
    /\ UNCHANGED rlVars
    /\ UNCHANGED restRL

\* results = pipe.execute(); current_count = results[1]
RacePipeline(p) ==
    /\ race[p].pc = "timed"
    /\ LET kept == ZRemRangeByScore(Lookup(zsets, RaceKey, {}),
                                    race[p].current_time - RaceRule.window_seconds)
       IN  /\ zsets' = Put(zsets, RaceKey, kept)
           /\ race' = [race EXCEPT ![p].pc = "counted",
                                   ![p].current_count = Cardinality(kept)]
    /\ UNCHANGED <<now, backend, memStore, admitted, lastRL, calls>>
    /\ UNCHANGED restRL

\* if current_count < limit: zadd; return current_count + 1, True
RaceAdmit(p) ==
    /\ race[p].pc = "counted"
    /\ race[p].current_count < RaceRule.requests
    /\ zsets' = Put(zsets, RaceKey,
                    ZAdd(Lookup(zsets, RaceKey, {}), race[p].current_time, RaceUid(p)))
    /\ race' = [race EXCEPT ![p].pc = "done", ![p].allowed = TRUE]
    /\ UNCHANGED <<now, backend, memStore, admitted, lastRL, calls>>
    /\ UNCHANGED restRL

\* else: return current_count, False
RaceReject(p) ==
    /\ race[p].pc = "counted"
    /\ ~(race[p].current_count < RaceRule.requests)
    /\ race' = [race EXCEPT ![p].pc = "done", ![p].allowed = FALSE]
    /\ UNCHANGED rlVars
    /\ UNCHANGED restRL

RaceTick ==
    /\ now < MaxTime
    /\ now' = now + 1
    /\ UNCHANGED <<backend, memStore, zsets, admitted, lastRL, calls, race>>
    /\ UNCHANGED restRL

NextRace ==
    \/ RaceTick
    \/ \E p \in RaceProcs : RaceReadClock(p)
    \/ \E p \in RaceProcs : RacePipeline(p)
    \/ \E p \in RaceProcs : RaceAdmit(p)
    \/ \E p \in RaceProcs : RaceReject(p)

SpecRace == InitRace /\ [][NextRace]_vars

\* C7: remove-expired, count and conditional insert of one increment_and_check are
\* one atomic step: of two calls that both counted L-1 entries at most one is
\* admitted, and the window never holds more than L entries.
C7_AtomicCheckAndInsert ==
    /\ Cardinality(Lookup(zsets, RaceKey, {})) <= RaceRule.requests
    /\ ~(\A p \in RaceProcs : /\ race[p].pc = "done"
                              /\ race[p].allowed
                              /\ race[p].current_count = RaceRule.requests - 1)

(***************************************************************************)
(* Budget ledger: models/user.py, services/cost_monitoring_service.py,     *)
(* services/cost_service.py                                                *)
(***************************************************************************)
\* api/auth.py:79-87: the row register_user creates for a tier
NewBudgetRow(daily, monthly, hourly) ==
    [exists |-> TRUE,
     daily_limit_usd |-> daily, monthly_limit_usd |-> monthly, hourly_limit |-> hourly,
     daily_spent_usd |-> 0, monthly_spent_usd |-> 0, requests_this_hour |-> 0,
     daily_reset_date |-> 0, monthly_reset_date |-> 0]

UserArgs == Users \cup {None}

Costs == 0..MaxCost

Estimates == {NoEstimate} \cup 0..MaxCost

FindBudget(b, user_id) == IF user_id \in DOMAIN b THEN b[user_id] ELSE NoRow

can_user_afford_this_request(b, user_id, estimated_cost) ==
    IF estimated_cost = NoEstimate \/ estimated_cost <= 0
    THEN [allowed |-> TRUE, reason |-> "No cost estimated"]
    ELSE LET user_budget == FindBudget(b, user_id)
         IN  IF ~user_budget.exists
             THEN [allowed |-> FALSE, reason |-> "No budget configuration found for user"]
             ELSE IF estimated_cost > user_budget.daily_limit_usd - user_budget.daily_spent_usd
             THEN [allowed |-> FALSE, reason |-> "Daily budget exceeded"]
             ELSE IF estimated_cost > user_budget.monthly_limit_usd - user_budget.monthly_spent_usd
             THEN [allowed |-> FALSE, reason |-> "Monthly budget exceeded"]
             ELSE [allowed |-> TRUE, reason |-> "Budget check passed"]

\* datetime.utcnow().replace(day=1).date(): the first day of the current month
current_month(day) == (day \div DaysPerMonth) * DaysPerMonth

\* another rule, which the services do not follow: the reset date advances by
\* one period length from its old value
ResetAdvancingOnePeriod(ub, day) ==
    LET d == IF ub.daily_reset_date < day
             THEN [ub EXCEPT !.daily_spent_usd = 0, !.daily_reset_date = @ + 1]
             ELSE ub
    IN  IF d.monthly_reset_date < current_month(day)
        THEN [d EXCEPT !.monthly_spent_usd = 0, !.monthly_reset_date = @ + DaysPerMonth]
        ELSE d

\* "Reset daily spending if it's a new day" / "... if it's a new month"
ResetIfDue(ub, day) ==
    LET d == IF ub.daily_reset_date < day
             THEN [ub EXCEPT !.daily_spent_usd = 0, !.daily_reset_date = day]
             ELSE ub
    IN  IF d.monthly_reset_date < current_month(day)
        THEN [d EXCEPT !.monthly_spent_usd = 0, !.monthly_reset_date = day]
        ELSE d

AddSpend(ub, cost) ==
    [ub EXCEPT !.daily_spent_usd = @ + cost, !.monthly_spent_usd = @ + cost]

\* CostMonitoringService.record_money_spent
record_money_spent(b, user_id, actual_cost, day) ==
    IF actual_cost <= 0
    THEN [budgets |-> b, result |-> "True", applied |-> FALSE]
    ELSE IF ~FindBudget(b, user_id).exists
    THEN [budgets |-> b, result |-> "False", applied |-> FALSE]
    ELSE [budgets |-> [b EXCEPT ![user_id] = AddSpend(ResetIfDue(b[user_id], day), actual_cost)],
          result |-> "True", applied |-> TRUE]

\* cost_service.apply_request_spend
apply_request_spend(b, user_id, total_cost_usd, day) ==
    IF user_id = None
    THEN [budgets |-> b, result |-> "False", applied |-> FALSE]
    ELSE IF ~FindBudget(b, user_id).exists
    THEN [budgets |-> b, result |-> "False", applied |-> FALSE]
    ELSE [budgets |-> [b EXCEPT ![user_id] = AddSpend(ResetIfDue(b[user_id], day), total_cost_usd)],
          result |-> "True", applied |-> TRUE]

\* another policy, which the else branch of record_cost_event spells out but
\* cannot carry out: a user without a row gets one, holding the cost as spent
record_cost_event_creating_row(b, events, user_id, cost_usd) ==
    LET cost_val == IF cost_usd = NoEstimate THEN 0 ELSE cost_usd
        ev == [id |-> Len(events) + 1, user_id |-> user_id, cost_snapshot_usd |-> cost_val]
        persisted == Append(events, ev)
    IN  IF user_id = None
        THEN [budgets |-> b, ledger |-> persisted, result |-> "None", applied |-> FALSE]
        ELSE IF ~FindBudget(b, user_id).exists
        THEN [budgets |-> [b EXCEPT ![user_id] = AddSpend(NewBudgetRow(0, 0, 0), cost_val)],
              ledger |-> persisted, result |-> "id", applied |-> TRUE]
        ELSE [budgets |-> [b EXCEPT ![user_id] = AddSpend(b[user_id], cost_val)],
              ledger |-> persisted, result |-> "id", applied |-> TRUE]

\* cost_service.record_cost_event: the event is committed first, then the budget
\* row is updated with no period reset; for a user without a row the constructor
\* call UserBudget(budget_usd=..., spent_usd=...) names columns the model does not
\* have and raises, after the event was committed; without a user id the function
\* falls off its end and returns None.
record_cost_event(b, events, user_id, cost_usd) ==
    LET cost_val == IF cost_usd = NoEstimate THEN 0 ELSE cost_usd
        ev == [id |-> Len(events) + 1, user_id |-> user_id, cost_snapshot_usd |-> cost_val]
        persisted == Append(events, ev)
    IN  IF user_id = None
        THEN [budgets |-> b, ledger |-> persisted, result |-> "None", applied |-> FALSE]
        ELSE IF ~FindBudget(b, user_id).exists
        THEN [budgets |-> b, ledger |-> persisted, result |-> "raise", applied |-> FALSE]
        ELSE [budgets |-> [b EXCEPT ![user_id] = AddSpend(b[user_id], cost_val)],
              ledger |-> persisted, result |-> "id", applied |-> TRUE]

WithinModel(b) ==
    \A u \in Users : b[u].exists =>
        /\ b[u].daily_spent_usd <= MaxSpent /\ b[u].monthly_spent_usd <= MaxSpent
        /\ b[u].daily_spent_usd >= -MaxSpent /\ b[u].monthly_spent_usd >= -MaxSpent

InitBudget ==
    /\ AuxQuiet
    /\ RLQuiet
    /\ SpendQuiet
    /\ GovQuiet
    /\ EvQuiet
    /\ today = 0
    /\ budgets = [u \in Users |-> IF u = "u1"
                                 THEN NewBudgetRow(TierDailyLimit, TierMonthlyLimit, TierHourlyLimit)
                                 ELSE NoRow]
    /\ ledger = <<>>
    /\ lastAfford = NoAfford
    /\ lastSpend = NoSpend

DayTick ==
    /\ today < MaxDay
    /\ today' = today + 1
    /\ UNCHANGED <<budgets, ledger, lastAfford, lastSpend>>
    /\ UNCHANGED restBud

CheckAfford(u, est) ==
    LET r == can_user_afford_this_request(budgets, u, est)
    IN  /\ lastAfford' = [checked |-> TRUE, user |-> u, est |-> est, row |-> FindBudget(budgets, u),
                          allowed |-> r.allowed, reason |-> r.reason]
        /\ lastSpend' = NoSpend
        /\ UNCHANGED <<today, budgets, ledger>>
        /\ UNCHANGED restBud

SpendRecord(op, u, c, r) ==
    [op |-> op, user |-> u, cost |-> c, before |-> FindBudget(budgets, u),
     after |-> FindBudget(r.budgets, u), day |-> today, applied |-> r.applied,
     result |-> r.result]

RecordMoneySpent(u, c) ==
    LET r == record_money_spent(budgets, u, c, today)
    IN  /\ WithinModel(r.budgets)
        /\ budgets' = r.budgets
        /\ lastSpend' = SpendRecord("record_money_spent", u, c, r)
        /\ lastAfford' = NoAfford
        /\ UNCHANGED <<today, ledger>>
        /\ UNCHANGED restBud

ApplyRequestSpend(u, c) ==
    LET r == apply_request_spend(budgets, u, c, today)
    IN  /\ WithinModel(r.budgets)
        /\ budgets' = r.budgets
        /\ lastSpend' = SpendRecord("apply_request_spend", u, c, r)
        /\ lastAfford' = NoAfford
        /\ UNCHANGED <<today, ledger>>
        /\ UNCHANGED restBud

RecordCostEvent(u, c) ==
    LET r == record_cost_event(budgets, ledger, u, c)
    IN  /\ Len(ledger) < MaxEvents
        /\ WithinModel(r.budgets)
        /\ budgets' = r.budgets
        /\ ledger' = r.ledger
        /\ lastSpend' = SpendRecord("record_cost_event", u, c, r)
        /\ lastAfford' = NoAfford
        /\ UNCHANGED <<today>>
        /\ UNCHANGED restBud

NextBudget ==
    \/ DayTick
    \/ \E u \in Users, est \in Estimates : CheckAfford(u, est)
    \/ \E u \in Users, c \in Costs : RecordMoneySpent(u, c)
    \/ \E u \in UserArgs, c \in Costs : ApplyRequestSpend(u, c)
    \/ \E u \in UserArgs, c \in Costs \cup {NoEstimate} : RecordCostEvent(u, c)

SpecBudget == InitBudget /\ [][NextBudget]_vars

\* the same ledger called with costs of either sign: total_cost_usd is any
\* float, and compute_cost of negative token counts is negative
SignedCosts == (-MaxCost)..MaxCost

NextBudgetSigned ==
    \/ DayTick
    \/ \E u \in Users, c \in SignedCosts : RecordMoneySpent(u, c)
    \/ \E u \in Users, c \in SignedCosts : ApplyRequestSpend(u, c)
    \/ \E u \in Users, c \in SignedCosts : RecordCostEvent(u, c)

SpecBudgetSigned == InitBudget /\ [][NextBudgetSigned]_vars

(***************************************************************************)
(* Claims about the budget ledger.                                         *)
(***************************************************************************)
EstimateValue(est) == IF est = NoEstimate THEN 0 ELSE est

\* C3: for a user with no budget row and for every estimate (a missing, zero or
\* unpriced one included) can_user_afford_this_request returns not-allowed with
\* the reason that no budget is configured.
C3_NoBudgetRowIsDenied ==
    (lastAfford.checked /\ ~lastAfford.row.exists) =>
        /\ ~lastAfford.allowed
        /\ lastAfford.reason = "No budget configuration found for user"

Remaining(row, period) ==
    CASE period = "hourly" -> row.hourly_limit - row.requests_this_hour
      [] period = "daily" -> row.daily_limit_usd - row.daily_spent_usd
      [] period = "monthly" -> row.monthly_limit_usd - row.monthly_spent_usd

PeriodReason(period) ==
    CASE period = "hourly" -> "Hourly budget exceeded"
      [] period = "daily" -> "Daily budget exceeded"
      [] period = "monthly" -> "Monthly budget exceeded"

PeriodOrder == <<"hourly", "daily", "monthly">>

Fits(row, est, i) == EstimateValue(est) <= Remaining(row, PeriodOrder[i])

\* C4: for a user with a budget row, allowed iff the estimate fits into
\* limit - spent of every configured period (hourly, daily, monthly); a denial names
\* the first period, in the order checked, that the estimate does not fit into.
C4_AllowedIffEveryPeriodFits ==
    (lastAfford.checked /\ lastAfford.row.exists) =>
        /\ lastAfford.allowed <=> \A i \in 1..3 : Fits(lastAfford.row, lastAfford.est, i)
        /\ \A i \in 1..3 :
              (/\ ~Fits(lastAfford.row, lastAfford.est, i)
               /\ \A j \in 1..(i - 1) : Fits(lastAfford.row, lastAfford.est, j))
              => lastAfford.reason = PeriodReason(PeriodOrder[i])

\* C5: after an operation that applies a realized cost c to a user's budget, each
\* period's spent is spent_before + c, or c when the period boundary was crossed
\* since the last reset.
C5_SpendAddsOrRestarts ==
    (lastSpend.applied /\ lastSpend.cost > 0) =>
        /\ lastSpend.after.daily_spent_usd =
              IF lastSpend.before.daily_reset_date < lastSpend.day
              THEN lastSpend.cost
              ELSE lastSpend.before.daily_spent_usd + lastSpend.cost
        /\ lastSpend.after.monthly_spent_usd =
              IF lastSpend.before.monthly_reset_date < current_month(lastSpend.day)
              THEN lastSpend.cost
              ELSE lastSpend.before.monthly_spent_usd + lastSpend.cost

(***************************************************************************)
(* Two spend-recording calls running concurrently on the row of one user.  *)
(* A call reads the row (SELECT, or SELECT ... FOR UPDATE where the code    *)
(* says with_for_update), computes the new counters from what it read, and *)
(* commits them; the commit's UPDATE waits for a row lock another          *)
(* transaction holds and releases the lock the call itself holds.          *)
(***************************************************************************)
SpendOps == {"record_money_spent", "apply_request_spend", "record_cost_event"}

\* cost_service.py:127, 171 take the row lock; cost_monitoring_service.py:113 does not
UsesForUpdate(op) == op \in {"apply_request_spend", "record_cost_event"}

SpendUser == "u1"

\* the counters a call writes, computed from the row it read
NewCounters(op, row, cost, day) ==
    IF op = "record_cost_event" THEN AddSpend(row, cost)
    ELSE AddSpend(ResetIfDue(row, day), cost)

restSpend == <<rlVars, raceVars, today, ledger, lastAfford, lastSpend, govVars, evVars, usageVars, rcVars, sseVars, fnVars, wrapVars>>

InitSpendRace ==
    /\ AuxQuiet
    /\ RLQuiet
    /\ GovQuiet
    /\ EvQuiet
    /\ today = 0
    /\ ledger = <<>>
    /\ lastAfford = NoAfford
    /\ lastSpend = NoSpend
    /\ \E s \in 0..1 :
          /\ budgets = [u \in Users |->
                IF u = SpendUser
                THEN [NewBudgetRow(TierDailyLimit, TierMonthlyLimit, TierHourlyLimit)
                        EXCEPT !.daily_spent_usd = s, !.monthly_spent_usd = s]
                ELSE NoRow]
          /\ \E ops \in [RaceProcs -> SpendOps], cs \in [RaceProcs -> 1..MaxCost] :
                spendRace = [txn |-> [p \in RaceProcs |->
                                        [pc |-> "start", op |-> ops[p], cost |-> cs[p], row |-> NoRow]],
                             lock |-> None,
                             start |-> budgets[SpendUser]]

\* db.query(UserBudget).filter(...).first()
TxnRead(p) ==
    /\ spendRace.txn[p].pc = "start"
    /\ ~UsesForUpdate(spendRace.txn[p].op)
    /\ spendRace' = [spendRace EXCEPT !.txn[p].pc = "read", !.txn[p].row = budgets[SpendUser]]
    /\ UNCHANGED budgets
    /\ UNCHANGED restSpend

\* db.query(UserBudget).filter(...).with_for_update().first()
TxnReadForUpdate(p) ==
    /\ spendRace.txn[p].pc = "start"
    /\ UsesForUpdate(spendRace.txn[p].op)
    /\ spendRace.lock = None
    /\ spendRace' = [spendRace EXCEPT !.txn[p].pc = "read", !.txn[p].row = budgets[SpendUser],
                                      !.lock = p]
    /\ UNCHANGED budgets
    /\ UNCHANGED restSpend

\* the assignments to the counters and db.commit()
TxnCommit(p) ==
    /\ spendRace.txn[p].pc = "read"
    /\ spendRace.lock \in {None, p}
    /\ budgets' = [budgets EXCEPT ![SpendUser] =
                      NewCounters(spendRace.txn[p].op, spendRace.txn[p].row,
                                  spendRace.txn[p].cost, today)]
    /\ spendRace' = [spendRace EXCEPT !.txn[p].pc = "done", !.lock = None]
    /\ UNCHANGED restSpend

NextSpendRace ==
    \E p \in RaceProcs : TxnRead(p) \/ TxnReadForUpdate(p) \/ TxnCommit(p)

SpecSpendRace == InitSpendRace /\ [][NextSpendRace]_vars

SpendRaceDone == \A p \in RaceProcs : spendRace.txn[p].pc = "done"

SumOfCosts == spendRace.txn["p1"].cost + spendRace.txn["p2"].cost

\* C6: two spend applications with costs c1 and c2 that run concurrently for one
\* user leave each period's spent counter increased by exactly c1 + c2.
C6_ConcurrentSpendsAddUp ==
    SpendRaceDone =>
        /\ budgets[SpendUser].daily_spent_usd = spendRace.start.daily_spent_usd + SumOfCosts
        /\ budgets[SpendUser].monthly_spent_usd = spendRace.start.monthly_spent_usd + SumOfCosts

(***************************************************************************)
(* The request path: main.py adds the middlewares CORS, RateLimit,         *)
(* CorrelationId, CostMonitoring in this order, so a request meets them in *)
(* the reverse order (the last one added is the outermost) and then the    *)
(* router.                                                                 *)
(***************************************************************************)
MaxReqs == 3

GovPaths == {"/evaluate", "/api/evaluate", "/docs"}

Methods == {"POST", "GET"}

\* CostMonitoringMiddleware.free_endpoints, by request_path.startswith
IsFreeEndpoint(path) == path \in {"/docs"}

\* CostMonitoringMiddleware.ai_endpoints == ["/api/evaluate"], by startswith
IsAiEndpoint(path) == path \in {"/api/evaluate"}

_should_check_budget(method, path) ==
    IF IsFreeEndpoint(path) THEN FALSE
    ELSE IF method # "POST" THEN FALSE
    ELSE IsAiEndpoint(path)

\* the user of the bearer token, else "ip_<address>", else a bare None that the
\* caller's tuple unpacking cannot take
_get_user_info_from_request(token_user, has_client) ==
    IF token_user # None THEN [raised |-> FALSE, user_id |-> token_user]
    ELSE IF has_client THEN [raised |-> FALSE, user_id |-> "ip_a"]
    ELSE [raised |-> TRUE, user_id |-> None]

DbFaults == {"none", "open", "query"}

\* can_user_afford_this_request with the database in one of three conditions.
\* The estimate shortcut returns before the database is touched.  When
\* next(get_db()) raises, the except branch returns (False, "Budget check failed"),
\* but the finally block then runs db.close() on a name that was never bound, and
\* the UnboundLocalError it raises replaces the return value.  When the query
\* raises, db is bound and the function returns (False, "Budget check failed").
AffordWithStore(b, user_id, estimated_cost, db_fault) ==
    IF estimated_cost = NoEstimate \/ estimated_cost <= 0
    THEN [allowed |-> TRUE, reason |-> "No cost estimated", raised |-> FALSE]
    ELSE IF db_fault = "open"
    THEN [allowed |-> FALSE, reason |-> "UnboundLocalError", raised |-> TRUE]
    ELSE IF db_fault = "query"
    THEN [allowed |-> FALSE, reason |-> "Budget check failed", raised |-> FALSE]
    ELSE LET r == can_user_afford_this_request(b, user_id, estimated_cost)
         IN  [allowed |-> r.allowed, reason |-> r.reason, raised |-> FALSE]

\* CostMonitoringMiddleware.dispatch up to its call_next: "next" hands the request
\* on, "429" answers it.  After a passed check the log line reads
\* estimated_cost['total_cost'], a key the estimate does not have, so the handler
\* continues in the except branch, which calls call_next.
\* line 126 formats estimated_cost['total_cost']; the estimate of
\* estimate_cost_detailed has the key total_cost_usd, and a missing estimate is
\* None: the subscript raises in both cases
PassedCheckLogRaises(est) == TRUE

\* _create_budget_exceeded_response: JSONResponse(status_code=429) with the
\* headers X-Budget-Exceeded: "true" and X-Estimated-Cost
_create_budget_exceeded_response == [status |-> 429, x_budget_exceeded |-> TRUE]

\* a middleware that failed open on a denial, which this one does not: the
\* request would be handed on although the check said no
CostDispatchForwardingDenial(g, b) ==
    LET who == _get_user_info_from_request(g.token_user, g.has_client)
        r == AffordWithStore(b, who.user_id, g.est, g.db_fault)
        checked == _should_check_budget(g.method, g.path) /\ ~who.raised
    IN  [go |-> "next", checked |-> checked, allowed |-> checked /\ ~r.raised /\ r.allowed,
         raised |-> checked /\ r.raised, cost_info |-> FALSE]

CostDispatch(g, b) ==
    IF ~_should_check_budget(g.method, g.path)
    THEN [go |-> "next", checked |-> FALSE, allowed |-> FALSE, raised |-> FALSE,
          cost_info |-> FALSE]
    ELSE LET who == _get_user_info_from_request(g.token_user, g.has_client)
         IN  IF who.raised
             THEN [go |-> "next", checked |-> FALSE, allowed |-> FALSE, raised |-> FALSE,
                   cost_info |-> FALSE]
             ELSE LET r == AffordWithStore(b, who.user_id, g.est, g.db_fault)
                  IN  IF r.raised
                      THEN [go |-> "next", checked |-> TRUE, allowed |-> FALSE, raised |-> TRUE,
                            cost_info |-> FALSE]
                      ELSE IF ~r.allowed
                      THEN [go |-> "429", checked |-> TRUE, allowed |-> FALSE, raised |-> FALSE,
                            cost_info |-> FALSE]
                      ELSE [go |-> "next", checked |-> TRUE, allowed |-> TRUE, raised |-> FALSE,
                            cost_info |-> ~PassedCheckLogRaises(g.est)]

\* CorrelationIdMiddleware.dispatch after call_next: the response gets
\* x-request-id, the inbound header's value or a generated one, unless it has one
EchoRequestId(inbound) == IF inbound # None THEN inbound ELSE "generated"

\* the headers of a response that leaves the application: it has passed, on its
\* way out, exactly the middlewares the request passed on its way in
\* (_add_cost_info_to_response writes only for a truthy estimate)
Outbound(g) ==
    [g EXCEPT !.resp_request_id = IF \E i \in DOMAIN g.stages : g.stages[i] = "correlation"
                                  THEN EchoRequestId(g.inbound_id) ELSE None,
              !.resp_cost_info = g.cost_info_due /\ g.est # NoEstimate]

\* RateLimitMiddleware(skip_paths=["/docs", "/redoc", "/openapi.json", "/health/live"])
IsSkipPath(path) == path \in {"/docs"}

\* the router and evaluate_startup up to asyncio.create_task
RouteStatus(g) ==
    IF g.path = "/docs" THEN 200
    ELSE IF g.path # "/evaluate" THEN 404
    ELSE IF g.method # "POST" THEN 405
    ELSE IF g.sanitize = "issues" THEN 500
    ELSE IF ~g.body_request_id THEN 500
    ELSE IF g.sanitize = "off" THEN 500
    ELSE 200

StartsWorkflow(g) == g.path = "/evaluate" /\ RouteStatus(g) = 200

restGov == <<raceVars, budVars, spendVars, evVars, usageVars, rcVars, sseVars, fnVars, wrapVars>>

InitGov ==
    /\ AuxQuiet
    /\ SpendQuiet
    /\ EvQuiet
    /\ race = RaceIdle
    /\ now = 0
    /\ backend = "memory"
    /\ memStore = EmptyMap
    /\ zsets = EmptyMap
    /\ admitted = EmptyMap
    /\ lastRL = NoRL
    /\ calls = 0
    /\ today = 0
    /\ budgets = [u \in Users |->
          IF u = "u1"
          THEN [NewBudgetRow(TierDailyLimit, TierMonthlyLimit, TierHourlyLimit)
                  EXCEPT !.daily_spent_usd = 1, !.monthly_spent_usd = 1]
          ELSE NoRow]
    /\ ledger = <<>>
    /\ lastAfford = NoAfford
    /\ lastSpend = NoSpend
    /\ gov = GovIdle

Arrive(method, path, token_user, has_client, est, sanitize, body_request_id, db_fault) ==
    /\ gov.pc = "idle"
    /\ calls < MaxReqs
    /\ gov' = [GovIdle EXCEPT !.pc = "cost", !.method = method, !.path = path,
                              !.token_user = token_user, !.has_client = has_client,
                              !.est = est, !.sanitize = sanitize,
                              !.body_request_id = body_request_id,
                              !.db_fault = db_fault]
    /\ UNCHANGED rlVars
    /\ UNCHANGED restGov

CostMonitoringDispatch ==
    LET r == CostDispatch(gov, budgets)
    IN  /\ gov.pc = "cost"
        /\ gov' = Outbound([gov EXCEPT !.stages = Append(@, "cost"),
                              !.budget_checked = r.checked,
                              !.budget_allowed = r.allowed,
                              !.budget_raised = r.raised,
                              !.cost_info_due = r.cost_info,
                              !.pc = IF r.go = "429" THEN "done" ELSE "correlation",
                              !.status = IF r.go = "429"
                                         THEN _create_budget_exceeded_response.status ELSE 0,
                              !.resp_budget_exceeded =
                                  r.go = "429"
                                  /\ _create_budget_exceeded_response.x_budget_exceeded])
        /\ UNCHANGED rlVars
        /\ UNCHANGED restGov

CorrelationIdDispatch(inbound) ==
    /\ gov.pc = "correlation"
    /\ gov' = [gov EXCEPT !.stages = Append(@, "correlation"), !.pc = "rate",
                          !.inbound_id = inbound]
    /\ UNCHANGED rlVars
    /\ UNCHANGED restGov

RateLimitSkip ==
    /\ gov.pc = "rate"
    /\ IsSkipPath(gov.path)
    /\ gov' = [gov EXCEPT !.stages = Append(@, "rate"), !.pc = "router"]
    /\ UNCHANGED rlVars
    /\ UNCHANGED restGov

RateLimitDispatch(ip, session) ==
    LET r == check_rate_limit(Storage, ip, session, gov.path, now, calls)
    IN  /\ gov.pc = "rate"
        /\ ~IsSkipPath(gov.path)
        /\ calls' = calls + 1
        /\ memStore' = r.st.mem
        /\ zsets' = r.st.z
        /\ admitted' = BagAddAll(admitted, r.admits)
        /\ lastRL' = [allowed |-> r.allowed, headers |-> r.headers, failed |-> r.failed,
                      at |-> now, ip |-> ip, session |-> session,
                      endpoint |-> gov.path, store_up |-> TRUE]
        /\ gov' = Outbound([gov EXCEPT !.stages = Append(@, "rate"),
                              !.rate_checked = TRUE,
                              !.rate_allowed = r.allowed,
                              !.pc = IF r.allowed THEN "router" ELSE "done",
                              !.status = IF r.allowed THEN 0 ELSE 429])
        /\ UNCHANGED <<now, backend>>
        /\ UNCHANGED restGov

Router ==
    /\ gov.pc = "router"
    /\ gov' = Outbound([gov EXCEPT !.stages = Append(@, "router"),
                          !.workflow_started = StartsWorkflow(gov),
                          !.status = RouteStatus(gov),
                          !.pc = "done"])
    /\ UNCHANGED rlVars
    /\ UNCHANGED restGov

\* the response has left the application; the request object is gone
Respond ==
    /\ gov.pc = "done"
    /\ gov' = GovIdle
    /\ UNCHANGED rlVars
    /\ UNCHANGED restGov

NextGov ==
    \/ \E method \in Methods, path \in GovPaths, token_user \in {None, "u1"},
          has_client \in BOOLEAN, est \in Estimates,
          sanitize \in {"ok", "issues", "off"}, body_request_id \in BOOLEAN,
          db_fault \in DbFaults :
            Arrive(method, path, token_user, has_client, est, sanitize, body_request_id,
                   db_fault)
    \/ CostMonitoringDispatch
    \/ \E inbound \in {None, "rid-1"} : CorrelationIdDispatch(inbound)
    \/ RateLimitSkip
    \/ \E ip \in ClientIps, session \in Sessions : RateLimitDispatch(ip, session)
    \/ Router
    \/ Respond

SpecGov == InitGov /\ [][NextGov]_vars

\* C2: the evaluation workflow of a POST to the evaluate endpoint is started only
\* when the rate-limit check allowed the request and can_user_afford_this_request
\* ran for it and allowed it; no path reaches the workflow without both.
C2_WorkflowOnlyAfterBothChecks ==
    gov.workflow_started =>
        /\ gov.rate_checked /\ gov.rate_allowed
        /\ gov.budget_checked /\ gov.budget_allowed

(***************************************************************************)
(* Agent events: the instrumented crew calls of the advisor graph          *)
(* (agents/crews/crew_factory.py, agents/langgraph/advisor_graph.py), the  *)
(* background run (api/evaluate_startup.py) and the broker                 *)
(* (utils/event_broker_redis.py).                                          *)
(***************************************************************************)
MaxNested == 1

MaxPending == 2

\* check_market_viability: ... and state["market_retries"] < 3
MarketRetryLimit == 3

GraphNodes == {"market_node", "finance_node", "product_node", "summary_node"}

\* how the body of a wrapped call makes a further wrapped call: in its own
\* context, in a copy of its context (asyncio task, asyncio.to_thread), or on a
\* new threading.Thread, whose context variables start from their defaults
NestKinds == {"same", "copied", "fresh"}

Verdicts == {"viable", "not viable"}

Event(type, invocation_id) == [type |-> type, invocation_id |-> invocation_id]

\* a wrapper that does not look at the marker
IsTopLevelAlways(existing_invocation) == TRUE

\* top_level = existing_invocation is None
IsTopLevel(existing_invocation) == existing_invocation = NoInvocation

\* the agent_started publication of the wrapper; _publish_agent_event drops an
\* event that has no request id
StartedEvents(call) ==
    IF call.top_level /\ call.request_id
    THEN <<Event("agent_started", call.id)>> ELSE <<>>

\* a wrapper that publishes agent_finished after fn returned, not in a finally block
FinishedOnlyOnReturn(call, fn_outcome) ==
    IF call.top_level /\ call.request_id /\ fn_outcome = "returned"
    THEN <<Event("agent_finished", call.id)>> ELSE <<>>

\* the agent_finished publication in the wrapper's finally block
FinishedEvents(call, fn_outcome) ==
    IF call.top_level /\ call.request_id
    THEN <<Event("agent_finished", call.id)>> ELSE <<>>

\* the wrapper returns what fn returned and lets what fn raised through
WrapperOutcome(call, fn_outcome) == fn_outcome

\* the wrapper's prologue in context ctx, whose marker is existing_invocation
EnterCall(id, kind, node, parent, ctx, existing_invocation, request_id) ==
    [id |-> id, kind |-> kind, node |-> node, parent |-> parent, ctx |-> ctx,
     top_level |-> IsTopLevel(existing_invocation), token |-> existing_invocation,
     request_id |-> request_id, pc |-> "running", fn_outcome |-> None]

\* _current_agent_invocation.set(invocation_id), only for a top-level call
MarkerAfterEnter(m, call) ==
    IF call.top_level THEN Put(m, call.ctx, call.id) ELSE Put(m, call.ctx, call.token)

\* a wrapper that leaves its invocation id in the context variable
MarkerLeftAfterReturn(m, call) == m

\* _current_agent_invocation.reset(token), only for a top-level call
MarkerAfterReturn(m, call) ==
    IF call.top_level THEN [m EXCEPT ![call.ctx] = call.token] ELSE m

\* check_market_viability and the edges of build_graph
NextNode(node, verdict, market_retries) ==
    CASE node = "market_node" ->
            IF verdict = "not viable" /\ market_retries < MarketRetryLimit
            THEN "market_node" ELSE "finance_node"
      [] node = "finance_node" -> "product_node"
      [] node = "product_node" -> "summary_node"
      [] node = "summary_node" -> "END"

SeqRange(q) == {q[k] : k \in 1..Len(q)}

\* publish_event called where no event loop runs (the worker thread) starts a
\* daemon thread per event, which publishes when it gets to run; PendingRoom
\* bounds the number of such threads that have not run yet
PendingRoom == Cardinality(pending) < MaxPending

Running(i) == inv[i].pc = "running"

NestedCount == Cardinality({i \in 1..Len(inv) : inv[i].kind # "node"})

restEv == <<rlVars, raceVars, budVars, spendVars, govVars, usageVars, rcVars, sseVars, fnVars, wrapVars>>

InitEvents ==
    /\ AuxQuiet
    /\ RLQuiet
    /\ BudQuiet
    /\ SpendQuiet
    /\ GovQuiet
    /\ wf = [node |-> "market_node", pc |-> "at", market_retries |-> 0]
    /\ inv = <<>>
    /\ marker = [c \in {0} |-> NoInvocation]
    /\ published = <<>>
    /\ pending = {}
    /\ channel = <<>>

\* a graph node calls crew.kickoff(inputs={..., "request_id": request_id})
NodeCall ==
    LET id == Len(inv) + 1
        call == EnterCall(id, "node", wf.node, 0, 0, marker[0], TRUE)
        evs == StartedEvents(call)
    IN  /\ wf.pc = "at"
        /\ wf.node \in GraphNodes
        /\ inv' = Append(inv, call)
        /\ marker' = MarkerAfterEnter(marker, call)
        /\ published' = published \o evs
        /\ pending' = pending \cup SeqRange(evs)
        /\ wf' = [wf EXCEPT !.pc = "in"]
        /\ UNCHANGED channel
        /\ UNCHANGED restEv

\* the body of the running call o makes a further wrapped call
NestedCall(o, kind, rid_in_inputs) ==
    LET id == Len(inv) + 1
        ctx == IF kind = "same" THEN inv[o].ctx ELSE id
        existing == IF kind = "fresh" THEN NoInvocation ELSE marker[inv[o].ctx]
        request_id == rid_in_inputs \/ kind # "fresh"
        call == EnterCall(id, kind, inv[o].node, o, ctx, existing, request_id)
        evs == StartedEvents(call)
    IN  /\ o \in 1..Len(inv)
        /\ Running(o)
        /\ NestedCount < MaxNested
        /\ inv' = Append(inv, call)
        /\ marker' = MarkerAfterEnter(marker, call)
        /\ published' = published \o evs
        /\ pending' = pending \cup SeqRange(evs)
        /\ UNCHANGED <<wf, channel>>
        /\ UNCHANGED restEv

\* a nested call's fn returns or raises; the finally block runs
NestedReturn(i, fn_outcome) ==
    LET evs == FinishedEvents(inv[i], fn_outcome)
    IN  /\ i \in 1..Len(inv)
        /\ Running(i)
        /\ inv[i].kind # "node"
        /\ \A j \in 1..Len(inv) : (inv[j].parent = i /\ inv[j].kind = "same") => ~Running(j)
        /\ inv' = [inv EXCEPT ![i].pc = WrapperOutcome(inv[i], fn_outcome),
                              ![i].fn_outcome = fn_outcome]
        /\ marker' = MarkerAfterReturn(marker, inv[i])
        /\ published' = published \o evs
        /\ pending' = pending \cup SeqRange(evs)
        /\ UNCHANGED <<wf, channel>>
        /\ UNCHANGED restEv

\* what _run publishes when graph.invoke is over: final_result, or error when it
\* raised; neither while the graph goes on
RunEvents(outcome, next) ==
    IF outcome = "raised" THEN <<Event("error", NoInvocation)>>
    ELSE IF next = "END" THEN <<Event("final_result", NoInvocation)>>
    ELSE <<>>

\* the crew call of a graph node returns or raises, the node function ends and
\* the graph moves on; a call made in the node's own context has returned by then
NodeReturn(i, fn_outcome, verdict) ==
    LET outcome == WrapperOutcome(inv[i], fn_outcome)
        retries == IF inv[i].node = "market_node" THEN wf.market_retries + 1
                   ELSE wf.market_retries
        next == NextNode(inv[i].node, verdict, retries)
        evs == FinishedEvents(inv[i], fn_outcome) \o RunEvents(outcome, next)
    IN  /\ i \in 1..Len(inv)
        /\ Running(i)
        /\ inv[i].kind = "node"
        /\ \A j \in 1..Len(inv) : (inv[j].parent = i /\ inv[j].kind = "same") => ~Running(j)
        /\ inv' = [inv EXCEPT ![i].pc = outcome, ![i].fn_outcome = fn_outcome]
        /\ marker' = MarkerAfterReturn(marker, inv[i])
        /\ published' = published \o evs
        /\ pending' = pending \cup SeqRange(evs)
        /\ wf' = IF outcome = "raised"
                 THEN [wf EXCEPT !.node = "failed", !.pc = "over"]
                 ELSE [wf EXCEPT !.node = next, !.market_retries = retries,
                                 !.pc = IF next = "END" THEN "over" ELSE "at"]
        /\ UNCHANGED channel
        /\ UNCHANGED restEv

\* a publisher thread runs: r.publish(f"events:{request_id}", ...)
Deliver(e) ==
    /\ e \in pending
    /\ pending' = pending \ {e}
    /\ channel' = Append(channel, e)
    /\ UNCHANGED <<wf, inv, marker, published>>
    /\ UNCHANGED restEv

\* _redis: Optional[AsyncRedisType] = None; only init_redis assigns it, and the
\* application never calls init_redis
AsyncClientReady == FALSE

\* the finally block of delegate_graph_run_to_background, on the event loop:
\* publish_event schedules _publish_async as a task there, and _publish_async
\* raises while the module's async client is unset (init_redis sets it, and no
\* code calls init_redis), so the sentinel is handed over but reaches no channel
Complete ==
    /\ wf.pc = "over"
    /\ wf' = [wf EXCEPT !.pc = "complete"]
    /\ published' = Append(published, Event("__COMPLETE__", NoInvocation))
    /\ pending' = IF AsyncClientReady
                  THEN pending \cup {Event("__COMPLETE__", NoInvocation)}
                  ELSE pending
    /\ UNCHANGED <<inv, marker, channel>>
    /\ UNCHANGED restEv

\* the worker thread alone: the order in which it calls publish_event
NextEvents ==
    \/ Complete
    \/ NodeCall
    \/ \E o \in 1..Len(inv), kind \in NestKinds, rid \in BOOLEAN : NestedCall(o, kind, rid)
    \/ \E i \in 1..Len(inv), out \in {"returned", "raised"} : NestedReturn(i, out)
    \/ \E i \in 1..Len(inv), out \in {"returned", "raised"}, v \in Verdicts : NodeReturn(i, out, v)

SpecEvents == InitEvents /\ [][NextEvents]_vars

\* the worker thread and the publisher threads it starts
NextBroker ==
    \/ Complete
    \/ PendingRoom /\ NodeCall
    \/ \E i \in 1..Len(inv), out \in {"returned", "raised"}, v \in Verdicts :
          PendingRoom /\ NodeReturn(i, out, v)
    \/ \E e \in pending : Deliver(e)

SpecBroker == InitEvents /\ [][NextBroker]_vars

(***************************************************************************)
(* Claims about the agent events.                                          *)
(***************************************************************************)
Count(q, type, id) == Cardinality({k \in 1..Len(q) : q[k] = Event(type, id)})

CountType(q, type) == Cardinality({k \in 1..Len(q) : q[k].type = type})

WorkflowOver == wf.pc \in {"over", "complete"}

\* C8 (as claimed): over the whole run of a request's workflow, all graph nodes and
\* repeated market-node runs included, exactly one started and exactly one
\* finished event are published.
C8_OnePairPerRequest ==
    WorkflowOver =>
        /\ CountType(published, "agent_started") = 1
        /\ CountType(published, "agent_finished") = 1

\* C8 (amended): every top-level wrapped crew call that has a request id (each run
\* of a graph node is one) publishes exactly one started event when it begins and
\* exactly one finished event when it returns or raises.
C8_OnePairPerTopLevelCall ==
    \A i \in 1..Len(inv) :
        (inv[i].top_level /\ inv[i].request_id) =>
            /\ Count(published, "agent_started", i) = 1
            /\ Count(published, "agent_finished", i) = IF Running(i) THEN 0 ELSE 1

C8_Witness ==
    /\ wf.node = "END"
    /\ wf.market_retries >= 2
    /\ \E i \in 1..Len(inv) : inv[i].top_level /\ inv[i].pc = "raised"

IsNested(i) == inv[i].parent # 0

QuietAndTransparent(i) ==
    /\ Count(published, "agent_started", i) = 0
    /\ Count(published, "agent_finished", i) = 0
    /\ ~Running(i) => inv[i].pc = inv[i].fn_outcome

\* C9 (as claimed): a wrapped crew call that starts while another wrapped call of
\* the request is in flight, also on a different thread or task, publishes no
\* started and no finished event and returns as its function does.
C9_NestedCallIsSilent ==
    \A i \in 1..Len(inv) : IsNested(i) => QuietAndTransparent(i)

\* C9 (amended): a wrapped crew call that starts while another wrapped call is in
\* flight and runs in that call's context or in a copy of it publishes no started
\* and no finished event and returns as its function does.
C9_NestedCallInContextIsSilent ==
    \A i \in 1..Len(inv) :
        (IsNested(i) /\ inv[i].kind \in {"same", "copied"}) => QuietAndTransparent(i)

C9_Witness ==
    \E i \in 1..Len(inv) :
        /\ inv[i].kind = "copied"
        /\ inv[i].pc = "returned"
        /\ Count(published, "agent_finished", inv[i].parent) = 1

\* C10: on the channel, the started event of an invocation id comes before the
\* finished event of the same invocation id, however the publisher threads run.
C10_StartedReachesChannelFirst ==
    \A k \in 1..Len(channel) :
        channel[k].type = "agent_finished" =>
            \E j \in 1..(k - 1) : channel[j] = Event("agent_started", channel[k].invocation_id)

\* C11: for an accepted evaluate request, whether the workflow returned or raised,
\* the complete sentinel is eventually on the channel after the workflow has
\* ended: once the background task is over and every publisher has run, the
\* channel holds the sentinel.
C11_SentinelReachesChannel ==
    (wf.pc = "complete" /\ pending = {}) =>
        \E k \in 1..Len(channel) : channel[k].type = "__COMPLETE__"

\* C12: for every request the rate-limit check has completed with allowed before
\* the cost estimate and the budget check start, and a request the rate limiter
\* rejected never has its cost estimated or its budget read.
C12_RateLimitBeforeBudget ==
    /\ gov.budget_checked => (gov.rate_checked /\ gov.rate_allowed)
    /\ (gov.rate_checked /\ ~gov.rate_allowed) => ~gov.budget_checked

\* C13: when the budget store is unreachable (opening the session or querying the
\* budget row fails), a governed request is denied: can_user_afford_this_request
\* returns not-allowed and the cost middleware answers the request itself instead
\* of forwarding it.
C13_BudgetStoreDownDenies ==
    (gov.budget_checked /\ gov.db_fault # "none") =>
        /\ ~gov.budget_raised
        /\ ~gov.budget_allowed
        /\ gov.pc = "done" /\ gov.status = 429 /\ gov.stages = <<"cost">>

(***************************************************************************)
(* Claims about an unreachable rate-limit store.                           *)
(***************************************************************************)
RLCalled == lastRL # NoRL

\* the window of the first per-IP rule of the last call is full
FirstIpWindowFull ==
    LET rule == get_limits_for_endpoint(lastRL.endpoint)[1]
        key == _build_redis_key(lastRL.ip, lastRL.endpoint, rule.window_seconds, lastRL.at)
        kept == ZRemRangeByScore(Lookup(zsets, key, {}), lastRL.at - rule.window_seconds)
    IN  Cardinality(kept) >= rule.requests

Stamps(mem, z, key) ==
    IF backend = "memory"
    THEN LET q == Lookup(mem, key, <<>>) IN {<<i, q[i]>> : i \in 1..Len(q)}
    ELSE {<<m[2], m[1]>> : m \in Lookup(z, key, {})}

StampedAt(mem, z, key, t) == Cardinality({e \in Stamps(mem, z, key) : e[2] = t})

OldestStamp(mem, z, key) == SetMin({e[2] : e \in Stamps(mem, z, key)})

\* the order the rules are said to be evaluated in: per-IP, per-session (on
\* the governed evaluate endpoints only), global
SaidOrder(r) ==
    LET ipRules == get_limits_for_endpoint(r.endpoint)
        governed == r.endpoint = "/api/evaluate"
    IN  [i \in 1..Len(ipRules) |-> [id |-> r.ip, rule |-> ipRules[i]]]
        \o (IF governed
            THEN [i \in 1..Len(session_limits) |-> [id |-> r.session, rule |-> session_limits[i]]]
            ELSE <<>>)
        \o [i \in 1..Len(global_limits) |-> [id |-> "global:all", rule |-> global_limits[i]]]

SaidKey(r, i) ==
    _build_redis_key(SaidOrder(r)[i].id, r.endpoint, SaidOrder(r)[i].rule.window_seconds, r.at)

\* what one check_rate_limit call did to the windows, given the stores before
\* (memA, zA) and after (memB, zB) and the call's record r
ChainEffect(memA, zA, memB, zB, r) ==
    LET n == Len(SaidOrder(r))
        f == r.failed
    IN  /\ r.allowed <=> f = 0
        /\ f \in 0..n
        /\ \A i \in 1..n :
              \* rules before the failing one took a slot
              /\ (f = 0 \/ i < f) =>
                    StampedAt(memB, zB, SaidKey(r, i), r.at)
                        = StampedAt(memA, zA, SaidKey(r, i), r.at) + 1
              \* the failing rule took none
              /\ i = f =>
                    /\ StampedAt(memB, zB, SaidKey(r, i), r.at)
                          = StampedAt(memA, zA, SaidKey(r, i), r.at)
                    /\ r.headers.limit = SaidOrder(r)[i].rule.requests
                    /\ r.headers.reset = OldestStamp(memB, zB, SaidKey(r, i))
                                            + SaidOrder(r)[i].rule.window_seconds
              \* rules after it were not touched at all
              /\ (f # 0 /\ i > f) =>
                    Lookup(memB, SaidKey(r, i), <<>>) = Lookup(memA, SaidKey(r, i), <<>>)
                    /\ Lookup(zB, SaidKey(r, i), {}) = Lookup(zA, SaidKey(r, i), {})
        \* the session windows of an endpoint that is not governed are never used
        /\ r.endpoint # "/api/evaluate" =>
              \A j \in 1..Len(session_limits) :
                  LET k == _build_redis_key(r.session, r.endpoint,
                                            session_limits[j].window_seconds, r.at)
                  IN  Lookup(memB, k, <<>>) = <<>> /\ Lookup(zB, k, {}) = {}

\* C15: every check_rate_limit call evaluates the per-IP rules, then the
\* per-session rules (governed evaluate endpoint only), then the global rules;
\* the first failing rule ends the call, no later rule's window is touched, and
\* the headers carry the failing rule's limit and reset time.
C15_RulesInOrderFirstFailureEnds ==
    [][calls' = calls + 1 =>
          ChainEffect(memStore, zsets, memStore', zsets', lastRL')]_vars

\* a call that passed both per-IP rules and was rejected by a session rule
C15_Witness ==
    /\ RLCalled /\ ~lastRL.allowed
    /\ lastRL.endpoint = "/api/evaluate"
    /\ lastRL.failed = Len(get_limits_for_endpoint("/api/evaluate")) + 1

\* C16: a rejected request consumes no slot: after the rejecting call every
\* window of the request (each per-IP rule, each per-session rule, global)
\* holds as many entries stamped with the call's time as before it, also
\* when the rejecting rule is not the first of the chain.
C16_RejectedConsumesNoSlot ==
    [][(calls' = calls + 1 /\ ~lastRL'.allowed) =>
          \A i \in 1..Len(SaidOrder(lastRL')) :
              StampedAt(memStore', zsets', SaidKey(lastRL', i), lastRL'.at)
                  = StampedAt(memStore, zsets, SaidKey(lastRL', i), lastRL'.at)]_vars

(***************************************************************************)
(* Claims about one rule of L requests per W seconds.                      *)
(***************************************************************************)
\* the one per-IP rule of /health
HealthRule == get_limits_for_endpoint("/health")[1]

\* calls of the last call's client on /health that were admitted less than W
\* seconds before the last call, the last call itself not counted
EarlierInWindow ==
    AdmittedBetween(lastRL.ip, "/health", HealthRule.window_seconds,
                    lastRL.at - HealthRule.window_seconds, lastRL.at)
    - (IF lastRL.allowed THEN 1 ELSE 0)

\* the earliest of these calls
RECURSIVE EarliestInWindow(_)
EarliestInWindow(t) ==
    IF t >= lastRL.at \/ Lookup(admitted, <<lastRL.ip, "/health", HealthRule.window_seconds, t>>, 0) > 0
    THEN t
    ELSE EarliestInWindow(t + 1)

\* C17: with one rule of L requests per W seconds and one client, a call that
\* has fewer than L admitted calls in the W seconds before it is allowed, and a
\* call that has L of them is rejected, with a reset time of the earliest
\* timestamp in the window plus W and a Retry-After of at least 1.
C17_FirstLAllowedNextRejected ==
    (RLCalled /\ lastRL.endpoint = "/health") =>
        /\ EarlierInWindow < HealthRule.requests => lastRL.allowed
        /\ EarlierInWindow >= HealthRule.requests =>
              /\ ~lastRL.allowed
              /\ lastRL.headers.limit = HealthRule.requests
              /\ lastRL.headers.reset =
                    EarliestInWindow(Max(0, lastRL.at - HealthRule.window_seconds + 1))
                        + HealthRule.window_seconds
              /\ lastRL.headers.retry_after >= 1

(***************************************************************************)
(* Claims about the period reset of the budget counters.                   *)
(***************************************************************************)
\* the last call was one of the two spend applications that reset periods
ResettingSpendApplied ==
    lastSpend.applied /\ lastSpend.op \in {"record_money_spent", "apply_request_spend"}

\* the day (month) recorded in the row has passed when the call runs
DayCrossed == lastSpend.before.daily_reset_date < lastSpend.day

MonthCrossed == lastSpend.before.monthly_reset_date < current_month(lastSpend.day)

C20_SpentNeverNegative ==
    \A u \in Users : budgets[u].exists =>
        budgets[u].daily_spent_usd >= 0 /\ budgets[u].monthly_spent_usd >= 0

\* what the estimate is compared with once elapsed periods count as empty
FitsNewPeriod(row, est, day) ==
    /\ est <= row.daily_limit_usd
                - (IF row.daily_reset_date < day THEN 0 ELSE row.daily_spent_usd)
    /\ est <= row.monthly_limit_usd
                - (IF row.monthly_reset_date < current_month(day) THEN 0
                   ELSE row.monthly_spent_usd)

\* C19: a budget check made after a period boundary was crossed decides
\* against the new period's spend: a priced request that fits the limits once
\* the elapsed periods count as empty is allowed, with no spend application
\* having run since the boundary.
C19_CheckSeesNewPeriod ==
    [][(lastAfford'.checked /\ today' = today) =>
          ((lastAfford'.row.exists /\ lastAfford'.est > 0
              /\ FitsNewPeriod(lastAfford'.row, lastAfford'.est, today))
            => lastAfford'.allowed)]_vars

(***************************************************************************)
(* Cost recording of running workflows (utils/llm_manager.py,              *)
(* agents/helpers/record_agent_usage.py, agents/tools/search_tool.py).     *)
(* A request's graph run calls the four crews in turn on its worker        *)
(* thread. Inside a crew call the search tool may run and the LLM          *)
(* completes once; the LLM's callback handler records the completion's     *)
(* token usage. When the crew call returns, the usage decorator records    *)
(* the token usage it finds in the call's inputs. What the framework       *)
(* objects look like (whether the LLM result exposes token usage, which    *)
(* model name the handler sees, whether a crew output carries token usage, *)
(* whether an agent with max_execution_time runs on a pool thread) and     *)
(* which models are priced is fixed per run of the system, in usage.build. *)
(***************************************************************************)
MaxTokens == 1

\* database writes that fail during one behaviour
MaxFaults == 1

\* crew calls made during one behaviour, over all requests
MaxCrewCalls == 5

\* the model_pricing row of a priced model (per token here, per 1k in the code)
ModelPricing == [input_usd_per_1k |-> 1, output_usd_per_1k |-> 2]

UsageRequests == {"r1", "r2"}

UserOf(r) == IF r = "r1" THEN "u1" ELSE "u2"

UsageNodes == <<"market_node", "finance_node", "product_node", "summary_node">>

NoUsage == [prompt_tokens |-> 0, completion_tokens |-> 0, found |-> FALSE]

TokenUsages ==
    {[prompt_tokens |-> p, completion_tokens |-> 1, found |-> TRUE] : p \in 1..MaxTokens}

ModelNames == {"gpt-3.5-turbo"}

\* the positions, among earlier nodes, of the dict values of a node's kickoff
\* inputs, in the order the inputs dict lists them
InputBlocks(n) ==
    CASE n = 1 -> <<>>
      [] n = 2 -> <<1>>
      [] n = 3 -> <<2>>
      [] OTHER -> <<1, 2, 3>>

\* cost_service.compute_cost: None when the model has no pricing row
compute_cost(pricing, model_name, prompt_tokens, completion_tokens) ==
    IF model_name \notin pricing THEN NoEstimate
    ELSE prompt_tokens * ModelPricing.input_usd_per_1k
         + completion_tokens * ModelPricing.output_usd_per_1k

\* `a or b` on identifiers
OrElse(a, b) == IF a # None THEN a ELSE b

EmptyCtx == [user_id |-> None, request_id |-> None]

\* the request context of the thread a completion runs on: the worker thread
\* carries the request's ids, a pool thread started without the context does not
LiveCtx(r, n) ==
    IF usage.build.pool_thread /\ UsageNodes[n] = "product_node"
    THEN EmptyCtx
    ELSE [user_id |-> UserOf(r), request_id |-> r]

\* LLMManager.get_openai_llm: the handler is built once, from the context of
\* the request that first asks for the LLM
get_openai_llm(handler, r) ==
    IF handler.exists THEN handler
    ELSE [exists |-> TRUE, user_id |-> UserOf(r), request_id |-> r]

\* another handling, which no caller has: the exception is passed on
ReRaisesRecordingError(site) == FALSE

\* what a caller of record_cost_event does with an exception it raises: the
\* decorator, the callback and the search tool all log it and go on
SwallowsRecordingError(site) == site \in {"decorator", "llm_callback", "search_tool"}

\* one record_cost_event call: the budget and ledger afterwards, and the origin
\* record kept for the event. A failing database write persists nothing and
\* raises.
RecordCall(b, events, fault, source, r, n, of_node, tu, user_id, request_id, model_name) ==
    LET cost == compute_cost(usage.build.pricing, model_name,
                             tu.prompt_tokens, tu.completion_tokens)
        done == record_cost_event(b, events, user_id, cost)
        raised == fault \/ done.result = "raise"
    IN  [budgets |-> IF fault THEN b ELSE done.budgets,
         ledger |-> IF fault THEN events ELSE done.ledger,
         raised |-> raised,
         origin |-> [source |-> source, run |-> r, node |-> n, of_node |-> of_node,
                     tokens |-> tu.prompt_tokens + tu.completion_tokens,
                     user_id |-> user_id, request_id |-> request_id,
                     cost |-> IF cost = NoEstimate THEN 0 ELSE cost,
                     persisted |-> ~fault]]

RunIdle == [pc |-> "idle", node |-> 0, results |-> <<>>, realized |-> <<>>,
            tool_called |-> FALSE, outcome |-> None]

restUsage == <<rlVars, raceVars, spendVars, govVars, evVars, rcVars, sseVars, fnVars, wrapVars,
               today, lastAfford, lastSpend>>

InitUsage ==
    /\ RLQuiet
    /\ SpendQuiet
    /\ GovQuiet
    /\ EvQuiet
    /\ rc = RcIdle
    /\ sse = SseIdle
    /\ MoreQuiet
    /\ today = 0
    /\ budgets = [u \in Users |-> NewBudgetRow(TierDailyLimit, TierMonthlyLimit, TierHourlyLimit)]
    /\ ledger = <<>>
    /\ lastAfford = NoAfford
    /\ lastSpend = NoSpend
    /\ \E found \in BOOLEAN, hm \in ModelNames \cup {None}, pr \in SUBSET ModelNames,
          ru \in BOOLEAN, pt \in BOOLEAN, h \in {NoHandler, StartupHandler} :
          usage = [handler |-> h,
                   runs |-> [r \in UsageRequests |-> RunIdle],
                   log |-> <<>>,
                   faults |-> 0,
                   calls |-> 0,
                   build |-> [usage_found |-> found, handler_model |-> hm, pricing |-> pr,
                              result_usage |-> ru, pool_thread |-> pt]]

\* evaluate_startup: the background task starts the graph at market_node
StartRun(r) ==
    /\ usage.runs[r].pc = "idle"
    /\ usage' = [usage EXCEPT !.runs[r].pc = "enter", !.runs[r].node = 1]
    /\ UNCHANGED <<budgets, ledger>>
    /\ UNCHANGED restUsage

\* a graph node asks CrewFactory for its crew (the first request to do so
\* builds the LLM and its handler) and calls the wrapped kickoff
EnterCrew(r) ==
    /\ usage.runs[r].pc = "enter"
    /\ usage.calls < MaxCrewCalls
    /\ usage' = [usage EXCEPT !.handler = get_openai_llm(usage.handler, r),
                              !.calls = @ + 1,
                              !.runs[r].pc = "llm",
                              !.runs[r].tool_called = FALSE]
    /\ UNCHANGED <<budgets, ledger>>
    /\ UNCHANGED restUsage

\* SearchTool._run inside the market crew: a retrieval event with zero tokens
SearchToolRun(r, fault) ==
    LET n == usage.runs[r].node
        ctx == LiveCtx(r, n)
        call == RecordCall(budgets, ledger, fault, "search_tool", r, n, 0, NoUsage,
                            ctx.user_id, ctx.request_id, None)
    IN  /\ usage.runs[r].pc = "llm"
        /\ UsageNodes[n] = "market_node"
        /\ ~usage.runs[r].tool_called
        /\ fault => usage.faults < MaxFaults
        /\ budgets' = call.budgets
        /\ ledger' = call.ledger
        /\ usage' = [usage EXCEPT
              !.log = Append(@, call.origin),
              !.faults = IF fault THEN @ + 1 ELSE @,
              !.runs[r].tool_called = TRUE,
              !.runs[r].pc = IF call.raised /\ ~SwallowsRecordingError("search_tool")
                             THEN "raised" ELSE "llm"]
        /\ UNCHANGED restUsage

\* the LLM completes with token usage tu; _CostTrackingHandler.on_llm_end
LlmEnd(r, tu, fault) ==
    LET n == usage.runs[r].node
        live_ctx == LiveCtx(r, n)
        user_id == OrElse(live_ctx.user_id, usage.handler.user_id)
        request_id == OrElse(live_ctx.request_id, usage.handler.request_id)
        call == RecordCall(budgets, ledger, fault, "llm_callback", r, n, n, tu,
                            user_id, request_id, usage.build.handler_model)
        recorded == usage.build.usage_found
        raised == recorded /\ call.raised /\ ~SwallowsRecordingError("llm_callback")
    IN  /\ usage.runs[r].pc = "llm"
        /\ fault => recorded /\ usage.faults < MaxFaults
        /\ budgets' = IF recorded THEN call.budgets ELSE budgets
        /\ ledger' = IF recorded THEN call.ledger ELSE ledger
        /\ usage' = [usage EXCEPT
              !.log = IF recorded THEN Append(@, call.origin) ELSE @,
              !.faults = IF fault THEN @ + 1 ELSE @,
              !.runs[r].realized = Append(@, [node |-> n, usage |-> tu]),
              !.runs[r].results =
                  Append(@, IF usage.build.result_usage THEN tu ELSE NoUsage),
              !.runs[r].pc = IF raised THEN "raised" ELSE "return"]
        /\ UNCHANGED restUsage

\* the usage the decorator records: the token_usage of the last dict among the
\* call's inputs that carries one, zeros when there is none
RECURSIVE LastBlockWithUsage(_, _)
LastBlockWithUsage(results, blocks) ==
    IF blocks = <<>> THEN 0
    ELSE LET rest == LastBlockWithUsage(results, Tail(blocks))
         IN  IF rest # 0 THEN rest
             ELSE IF results[Head(blocks)].found THEN Head(blocks) ELSE 0

\* the crew call returns; record_agent_usage._wrapped records and hands the
\* result on; the graph moves to the next node
CrewReturn(r, fault) ==
    LET n == usage.runs[r].node
        src == LastBlockWithUsage(usage.runs[r].results, InputBlocks(n))
        tu == IF src = 0 THEN NoUsage ELSE usage.runs[r].results[src]
        call == RecordCall(budgets, ledger, fault, "decorator", r, n, src, tu,
                            UserOf(r), r, "gpt-3.5-turbo")
        raised == call.raised /\ ~SwallowsRecordingError("decorator")
    IN  /\ usage.runs[r].pc = "return"
        /\ fault => usage.faults < MaxFaults
        /\ budgets' = call.budgets
        /\ ledger' = call.ledger
        /\ usage' = [usage EXCEPT
              !.log = Append(@, call.origin),
              !.faults = IF fault THEN @ + 1 ELSE @,
              !.runs[r].pc = IF raised THEN "raised"
                             ELSE IF n = Len(UsageNodes) THEN "done" ELSE "enter",
              !.runs[r].node = IF raised \/ n = Len(UsageNodes) THEN n ELSE n + 1,
              !.runs[r].outcome = IF raised THEN "raised" ELSE "result"]
        /\ UNCHANGED restUsage

\* one request at a time, with database writes that may fail
NextUsage ==
    \/ StartRun("r1")
    \/ EnterCrew("r1")
    \/ \E fault \in BOOLEAN : SearchToolRun("r1", fault)
    \/ \E tu \in TokenUsages, fault \in BOOLEAN : LlmEnd("r1", tu, fault)
    \/ \E fault \in BOOLEAN : CrewReturn("r1", fault)

SpecUsage == InitUsage /\ [][NextUsage]_vars

\* two requests whose graph runs overlap, on a healthy database
NextShared ==
    \/ \E r \in UsageRequests : StartRun(r)
    \/ \E r \in UsageRequests : EnterCrew(r)
    \/ \E r \in UsageRequests : SearchToolRun(r, FALSE)
    \/ \E r \in UsageRequests, tu \in TokenUsages : LlmEnd(r, tu, FALSE)
    \/ \E r \in UsageRequests : CrewReturn(r, FALSE)

SpecShared == InitUsage /\ [][NextShared]_vars

EventsFor(r, n) ==
    {i \in DOMAIN usage.log :
        /\ usage.log[i].run = r
        /\ usage.log[i].of_node = n
        /\ usage.log[i].persisted}

RealizedNodes(r) == {usage.runs[r].realized[k].node : k \in DOMAIN usage.runs[r].realized}

\* C21: once a request's run is over (no database write having failed), every
\* LLM completion of the run has exactly one cost event in the ledger
C21_EachCompletionRecordedOnce ==
    \A r \in UsageRequests :
        (usage.runs[r].pc = "done" /\ usage.faults = 0) =>
            \A n \in RealizedNodes(r) : Cardinality(EventsFor(r, n)) = 1

\* C23: every cost event recorded while the workflow of a request runs carries
\* that request's id and that request's user, also when two requests overlap and
\* share the cached LLM and its handler
C23_EventsCarryOwnRequest ==
    \A i \in DOMAIN usage.log :
        /\ usage.log[i].request_id = usage.log[i].run
        /\ usage.log[i].user_id = UserOf(usage.log[i].run)

FailedRecordings(source) ==
    {i \in DOMAIN usage.log : usage.log[i].source = source /\ ~usage.log[i].persisted}

Chains == {"handler", "worker", "direct"}

EmptyDict == [request_id |-> None, graph_node_id |-> None, agent_id |-> None,
              invocation_id |-> None]

DefaultObject == 1

RcNodes == <<"market_node", "finance_node">>

AgentOf(node) == IF node = "market_node" THEN "Market Research Agent"
                 ELSE "Financial Advisor Agent"

\* get_request_context: the object itself, not a copy
get_request_context(c) == rc.bound[c]

\* another reading, which no call site uses: the mapping as returned, empty or not
SameObject(obj) == obj

\* `get_request_context() or {}`: an empty mapping is falsy, so the caller gets
\* a new dict of its own (0: no heap object) instead of the bound object
OrFresh(obj) == IF rc.heap[obj] = EmptyDict THEN 0 ELSE obj

\* the dict a chain works on after `ctx = get_request_context() or {}`
Deref(obj) == IF obj = 0 THEN EmptyDict ELSE rc.heap[obj]

ChainIdle == [pc |-> "none", node |-> 0, ctx |-> 0, local |-> EmptyDict,
              prev_node |-> None, prev_agent |-> None, ever_set |-> FALSE]

\* set_request_context(ctx): request_context.set(dict(ctx)) binds a new object
\* in chain c only
set_request_context(r, c, ctx) ==
    [r EXCEPT !.heap = Append(@, ctx),
              !.bound[c] = Len(r.heap) + 1,
              !.ch[c].ever_set = TRUE]

\* a write through a reference: every holder of object obj sees it; the writing
\* chain's own record of what it read follows its own write
WriteInPlace(r, c, obj, value) ==
    IF obj = 0 THEN r
    ELSE [r EXCEPT !.heap[obj] = value,
                   !.snap[c] = IF r.held[c] = obj THEN value ELSE @]

restRc == <<rlVars, raceVars, budVars, spendVars, govVars, evVars, usageVars, sseVars,
           fnVars, wrapVars>>

InitContext ==
    /\ RLQuiet
    /\ BudQuiet
    /\ SpendQuiet
    /\ GovQuiet
    /\ EvQuiet
    /\ usage = UsageIdle
    /\ sse = SseIdle
    /\ MoreQuiet
    /\ rc = [heap |-> <<EmptyDict>>,
             bound |-> [c \in Chains |-> DefaultObject],
             held |-> [c \in Chains |-> 0],
             snap |-> [c \in Chains |-> EmptyDict],
             ch |-> [c \in Chains |->
                        [ChainIdle EXCEPT !.pc = CASE c = "handler" -> "start"
                                                  [] c = "worker" -> "unborn"
                                                  [] OTHER -> "ready"]]]

\* evaluate_startup: merged = dict(get_request_context() or {}) plus the ids
HandlerSet ==
    LET cur == Deref(OrFresh(get_request_context("handler")))
    IN  /\ rc.ch["handler"].pc = "start"
        /\ rc' = [set_request_context(rc, "handler", [cur EXCEPT !.request_id = "r1"])
                    EXCEPT !.ch["handler"].pc = "set"]
        /\ UNCHANGED restRc

\* asyncio.create_task + asyncio.to_thread: the worker starts with a copy of the
\* handler's Context, bound to the same dict object
Fork ==
    /\ rc.ch["handler"].pc = "set"
    /\ rc' = [rc EXCEPT !.bound["worker"] = rc.bound["handler"],
                        !.ch["handler"].pc = "forked",
                        !.ch["worker"].pc = "ready",
                        !.ch["worker"].ever_set = rc.ch["handler"].ever_set]
    /\ UNCHANGED restRc

\* a chain keeps the mapping get_request_context returned
Hold(c) ==
    /\ rc.ch[c].pc \notin {"none", "start", "unborn"}
    /\ rc.held[c] # get_request_context(c)
    /\ rc' = [rc EXCEPT !.held[c] = get_request_context(c),
                        !.snap[c] = rc.heap[get_request_context(c)]]
    /\ UNCHANGED restRc

\* a graph node, lines before the kickoff: ctx = get_request_context() or {};
\* ctx["graph_node_id"] = ...; ctx["agent_id"] = ...
NodeEnter(c) ==
    LET n == rc.ch[c].node + 1
        obj == OrFresh(get_request_context(c))
        cur == Deref(obj)
        new == [cur EXCEPT !.graph_node_id = RcNodes[n], !.agent_id = AgentOf(RcNodes[n])]
    IN  /\ rc.ch[c].pc = "ready"
        /\ n <= Len(RcNodes)
        /\ rc' = [WriteInPlace(rc, c, obj, new) EXCEPT
                    !.ch[c].pc = "in_node",
                    !.ch[c].node = n,
                    !.ch[c].ctx = obj,
                    !.ch[c].local = new,
                    !.ch[c].prev_node = cur.graph_node_id,
                    !.ch[c].prev_agent = cur.agent_id]
        /\ UNCHANGED restRc

\* the wrapped kickoff on its way in: the context is set from the call's
\* arguments and then with the invocation id (two new snapshots)
CrewStart(c) ==
    LET cur == Deref(OrFresh(get_request_context(c)))
        merged == [cur EXCEPT !.request_id = "r1"]
        r1 == set_request_context(rc, c, merged)
        r2 == set_request_context(r1, c, [merged EXCEPT !.invocation_id = "inv"])
    IN  /\ rc.ch[c].pc = "in_node"
        /\ rc' = [r2 EXCEPT !.ch[c].pc = "in_crew"]
        /\ UNCHANGED restRc

\* the wrapped kickoff on its way out: ctx2 = get_request_context() or {};
\* ctx2.pop("invocation_id"); set_request_context(ctx2)
CrewEnd(c) ==
    LET obj == OrFresh(get_request_context(c))
        popped == [Deref(obj) EXCEPT !.invocation_id = None]
        r1 == WriteInPlace(rc, c, obj, popped)
    IN  /\ rc.ch[c].pc = "in_crew"
        /\ rc' = [set_request_context(r1, c, popped) EXCEPT !.ch[c].pc = "after_crew"]
        /\ UNCHANGED restRc

\* a graph node's finally block: the keys are restored on the dict the node
\* obtained at its start
NodeExit(c) ==
    LET me == rc.ch[c]
        restored == [Deref(me.ctx) EXCEPT !.graph_node_id = me.prev_node,
                                         !.agent_id = me.prev_agent]
    IN  /\ me.pc = "after_crew"
        /\ rc' = [WriteInPlace(rc, c, me.ctx, restored) EXCEPT
                    !.ch[c].pc = "ready",
                    !.ch[c].ctx = 0,
                    !.ch[c].local = EmptyDict]
        /\ UNCHANGED restRc

NextContext ==
    \/ HandlerSet
    \/ Fork
    \/ \E c \in Chains : Hold(c)
    \/ \E c \in {"worker", "direct"} : NodeEnter(c)
    \/ \E c \in {"worker", "direct"} : CrewStart(c)
    \/ \E c \in {"worker", "direct"} : CrewEnd(c)
    \/ \E c \in {"worker", "direct"} : NodeExit(c)

SpecContext == InitContext /\ [][NextContext]_vars

\* C24: a mapping a chain obtained from get_request_context is never changed
\* by a write made in another chain: every change to the request context,
\* the graph nodes' graph_node_id / agent_id writes included, is a new snapshot
C24_HeldMappingNeverChanges ==
    \A c \in Chains : rc.held[c] # 0 => rc.heap[rc.held[c]] = rc.snap[c]

\* C25: in a chain where set_request_context was never called,
\* get_request_context returns an empty mapping, whatever other chains did
C25_UnsetContextIsEmpty ==
    \A c \in Chains :
        ~rc.ch[c].ever_set => rc.heap[get_request_context(c)] = EmptyDict

C25_Witness ==
    /\ ~rc.ch["direct"].ever_set
    /\ rc.ch["direct"].pc = "in_node"
    /\ rc.ch["direct"].local.graph_node_id = "market_node"
    /\ rc.ch["worker"].ever_set
    /\ rc.ch["worker"].node = Len(RcNodes)

(***************************************************************************)
(* Claims about response headers.                                          *)
(***************************************************************************)
\* C26: every response carries x-request-id: the inbound header's value when
\* the request had one, a generated id otherwise; the 429 of the rate-limit
\* middleware and the 429 of the cost-monitoring middleware included
C26_EveryResponseHasRequestId ==
    gov.pc = "done" =>
        /\ gov.resp_request_id # None
        /\ gov.inbound_id # None => gov.resp_request_id = gov.inbound_id

\* the response comes from the router, not from a middleware's rejection
AnsweredByRouter(g) == \E i \in DOMAIN g.stages : g.stages[i] = "router"

\* C27: the response to a governed request that passed the budget check with a
\* cost estimate and was served by the application carries the estimate's
\* headers (X-Estimated-Cost-USD, X-Estimated-Tokens, X-Model-Used)
C27_PassedCheckAddsCostHeaders ==
    (/\ gov.pc = "done"
     /\ gov.budget_checked
     /\ gov.budget_allowed
     /\ gov.est # NoEstimate
     /\ AnsweredByRouter(gov)) => gov.resp_cost_info

(***************************************************************************)
(* The event stream of one request: api/llm_events.py (event_generator)    *)
(* over utils/event_broker_redis.py (subscribe_stream), and the workflow   *)
(* side publishing to the request's channel.  A Redis channel keeps        *)
(* nothing: a message reaches the subscriptions that exist when it is      *)
(* published.  sse.buffer holds the messages the stream's subscription has *)
(* received and not yet read.  The module's async client is given in       *)
(* either state, unset (as the application leaves it) or initialised (as   *)
(* init_redis leaves it); whether the server cancels a response generator  *)
(* when the client goes away is fixed per run.                             *)
(***************************************************************************)
MaxPublished == 2

MaxBuffered == 2

IsSentinel(type) == type \in {"__COMPLETE__", "__CLOSE__"}

restSse == <<rlVars, raceVars, budVars, spendVars, govVars, evVars, usageVars, rcVars,
            fnVars, wrapVars>>

InitStream ==
    /\ RLQuiet
    /\ BudQuiet
    /\ SpendQuiet
    /\ GovQuiet
    /\ EvQuiet
    /\ usage = UsageIdle
    /\ rc = RcIdle
    /\ MoreQuiet
    /\ \E client \in {"unset", "ready"}, cancels \in BOOLEAN :
          sse = [SseIdle EXCEPT !.client = client, !.cancels = cancels]

\* GET /events/{request_id}: subscribe_stream raises RuntimeError without the
\* async client (the generator ends, nothing was subscribed), else subscribes
OpenStream ==
    /\ sse.pc = "idle"
    /\ sse' = [sse EXCEPT !.pc = IF sse.client = "ready" THEN "subscribed" ELSE "failed"]
    /\ UNCHANGED restSse

\* r.publish(channel, ...): delivered to the subscription if there is one
Delivered(type) ==
    IF sse.pc = "subscribed" THEN Append(sse.buffer, type) ELSE sse.buffer

\* the workflow publishes an agent event, final_result or error from its
\* thread, through the sync client
PublishEvent ==
    /\ ~sse.sentinel_published
    /\ sse.published < MaxPublished
    /\ Len(sse.buffer) < MaxBuffered
    /\ sse' = [sse EXCEPT !.published = @ + 1, !.buffer = Delivered("agent_event")]
    /\ UNCHANGED restSse

\* delegate_graph_run_to_background's finally block: the sentinel is published
\* on the event loop through _publish_async, which needs the async client
PublishSentinel ==
    /\ ~sse.sentinel_published
    /\ Len(sse.buffer) < MaxBuffered
    /\ sse' = [sse EXCEPT
          !.sentinel_published = TRUE,
          !.buffer = IF sse.client = "ready" THEN Delivered("__COMPLETE__") ELSE @,
          !.sentinel_received = sse.client = "ready" /\ sse.pc = "subscribed"]
    /\ UNCHANGED restSse

\* the client closes the connection
Disconnect ==
    /\ sse.pc = "subscribed"
    /\ ~sse.disconnected
    /\ sse' = [sse EXCEPT !.disconnected = TRUE]
    /\ UNCHANGED restSse

\* get_message returns a message and subscribe_stream yields it to
\* event_generator: a disconnected client or a sentinel ends the loop, and the
\* finally block of subscribe_stream unsubscribes; anything else is sent on.
\* (While get_message returns None the loop sleeps and polls again: no step.)
Receive ==
    LET type == Head(sse.buffer)
    IN  /\ sse.pc = "subscribed"
        /\ sse.buffer # <<>>
        /\ sse' = IF sse.disconnected
                  THEN [sse EXCEPT !.pc = "closed", !.buffer = <<>>]
                  ELSE IF IsSentinel(type)
                  THEN [sse EXCEPT !.pc = "closed", !.buffer = <<>>, !.complete_sent = TRUE]
                  ELSE [sse EXCEPT !.buffer = Tail(@), !.frames = @ + 1]
        /\ UNCHANGED restSse

\* a server that cancels the response task on http.disconnect: the generators
\* are closed at their await and subscribe_stream's finally block runs
Cancel ==
    /\ sse.pc = "subscribed"
    /\ sse.disconnected
    /\ sse.cancels
    /\ sse' = [sse EXCEPT !.pc = "closed", !.buffer = <<>>]
    /\ UNCHANGED restSse

StreamStep == OpenStream \/ Receive \/ Cancel

NextStream ==
    \/ OpenStream
    \/ PublishEvent
    \/ PublishSentinel
    \/ Disconnect
    \/ Receive
    \/ Cancel

\* the stream's own steps are taken when they can be; nothing obliges the
\* workflow to publish or the client to go away
SpecStream == InitStream /\ [][NextStream]_vars /\ WF_vars(StreamStep)

\* as SpecStream, with a workflow that does end: its finally block runs
SpecStreamEnding ==
    InitStream /\ [][NextStream]_vars /\ WF_vars(StreamStep) /\ WF_vars(PublishSentinel)

Released == sse.pc \in {"closed", "failed"}

C29_LateSubscriberGetsComplete ==
    (sse.pc # "idle") ~> (sse.complete_sent \/ sse.disconnected)

(***************************************************************************)
(* Cost estimation: CostMonitoringMiddleware._estimate_response_length     *)
(* (middleware/cost_monitoring_middleware.py) and                          *)
(* TokenCalculator.count_tokens (utils/token_calculator.py).               *)
(* Factors are kept in tenths and token bounds in fifths of a token, so    *)
(* that 0.2 x input and 3.0 x input are whole numbers.                     *)
(***************************************************************************)
MaxShortInput == 20

MaxIndicators == 1

\* input token counts: every short one, and counts around the thresholds of
\* the code (200, 500, the cap of 2000 tokens, five times the cap)
InputTokenCounts == (0..MaxShortInput) \cup {200, 201, 500, 501, 666, 667, 2000, 10000, 10005}

\* complexity_indicators, weights in tenths
IndicatorWeight ==
    [analyze |-> 6, breakdown |-> 5, comprehensive |-> 7, detailed |-> 4, explain |-> 3,
     compare |-> 4, evaluate |-> 5, summary |-> -2, briefly |-> -3, quick |-> -2,
     simple |-> -2, yesno |-> -4]

Indicators == DOMAIN IndicatorWeight

RECURSIVE SumWeights(_)
SumWeights(S) ==
    IF S = {} THEN 0
    ELSE LET x == CHOOSE y \in S : TRUE IN IndicatorWeight[x] + SumWeights(S \ {x})

\* model_factors, in tenths; any other model name gets 1.0
EstimateModels == {"gpt-4", "gpt-4-turbo", "gpt-4-32k", "gpt-3.5-turbo",
                   "gpt-3.5-turbo-16k", "text-davinci-003", "text-davinci-002", "other"}

_get_model_response_factor(model) ==
    CASE model = "gpt-4" -> 13
      [] model = "gpt-4-turbo" -> 12
      [] model = "gpt-4-32k" -> 14
      [] model = "gpt-3.5-turbo" -> 10
      [] model = "gpt-3.5-turbo-16k" -> 11
      [] model = "text-davinci-003" -> 12
      [] model = "text-davinci-002" -> 11
      [] OTHER -> 10

\* an idea, as far as the estimate looks at it: its token count, the indicator
\* words it contains and its number of question marks
_analyze_idea_complexity(idea) ==
    LET by_length == IF idea.input_tokens > 500 THEN 15
                     ELSE IF idea.input_tokens > 200 THEN 12 ELSE 10
        by_words == by_length + SumWeights(idea.indicators)
        by_marks == IF idea.marks > 1 THEN by_words + 2 ELSE by_words
    IN  Max(5, Min(25, by_marks))

\* _estimate_response_length; min_response and max_response in fifths of a token
_estimate_response_length(idea, model) ==
    LET input_tokens == idea.input_tokens
        base_response_tokens ==
            (input_tokens * _analyze_idea_complexity(idea) * _get_model_response_factor(model))
                \div 100
        min_response == Max(250, input_tokens)
        max_response == Min(10000, 15 * input_tokens)
        estimated_tokens == Max(min_response, Min(max_response, 5 * base_response_tokens))
    IN  estimated_tokens \div 5

restFn == <<rlVars, raceVars, budVars, spendVars, govVars, evVars, usageVars, rcVars,
            sseVars, wrapVars>>

InitEstimate ==
    /\ RLQuiet
    /\ BudQuiet
    /\ SpendQuiet
    /\ GovQuiet
    /\ EvQuiet
    /\ usage = UsageIdle
    /\ rc = RcIdle
    /\ sse = SseIdle
    /\ wrap = WrapIdle
    /\ fn = FnIdle

EstimateResponseLength(idea, model) ==
    /\ fn.op = None
    /\ fn' = [op |-> "_estimate_response_length", idea |-> idea, model |-> model,
              result |-> _estimate_response_length(idea, model)]
    /\ UNCHANGED restFn

\* the middleware keeps nothing of the call
EstimateReturns ==
    /\ fn.op = "_estimate_response_length"
    /\ fn' = FnIdle
    /\ UNCHANGED restFn

NextEstimate ==
    \/ \E n \in InputTokenCounts, marks \in 0..2, model \in EstimateModels,
          ind \in {S \in SUBSET Indicators : Cardinality(S) <= MaxIndicators} :
            EstimateResponseLength([input_tokens |-> n, indicators |-> ind, marks |-> marks],
                                   model)
    \/ EstimateReturns

SpecEstimate == InitEstimate /\ [][NextEstimate]_vars

\* C31: the estimated output length lies between 0.2 x input tokens and
\* 3.0 x input tokens, for every input token count
C31_EstimateWithinInputBounds ==
    fn.op = "_estimate_response_length" =>
        /\ fn.idea.input_tokens <= 5 * fn.result
        /\ fn.result <= 3 * fn.idea.input_tokens

(***************************************************************************)
(* TokenCalculator.count_tokens.  A text is known by its length in         *)
(* characters, by the number of tokens each tiktoken encoding cuts it      *)
(* into, and by whether it contains a special token (encode raises on      *)
(* those).  The singleton keeps the loaded encoders in _encoders;          *)
(* tiktoken.get_encoding may fail, and a failed load is not cached.        *)
(***************************************************************************)
MaxChars == 4

MaxCountCalls == 2

Encodings == {"cl100k_base", "p50k_base"}

CountModels == {"gpt-3.5-turbo", "text-davinci-003"}

_get_encoding_for_model(model) ==
    IF model \in {"gpt-4", "gpt-3.5-turbo"} THEN "cl100k_base"
    ELSE IF model = "text-davinci-003" THEN "p50k_base"
    ELSE "cl100k_base"

Texts ==
    {[chars |-> 0, tokens |-> [e \in Encodings |-> 0], special |-> FALSE]}
        \cup [chars : 1..MaxChars, tokens : [Encodings -> 1..MaxChars], special : BOOLEAN]

\* a token covers at least one character
WellFormedText(t) == \A e \in Encodings : t.tokens[e] <= t.chars

\* count_tokens(text, model) with the encoders loaded so far; load_ok is the
\* outcome of tiktoken.get_encoding when the encoder is not cached yet
count_tokens(encoders, text, model, load_ok) ==
    IF text.chars = 0 THEN [result |-> 0, encoders |-> encoders]
    ELSE LET encoding_name == _get_encoding_for_model(model)
             loaded == encoding_name \in encoders \/ load_ok
             after == IF loaded THEN encoders \cup {encoding_name} ELSE encoders
         IN  IF loaded /\ ~text.special
             THEN [result |-> text.tokens[encoding_name], encoders |-> after]
             ELSE [result |-> Max(1, text.chars \div 4), encoders |-> after]

InitTokens ==
    /\ RLQuiet
    /\ BudQuiet
    /\ SpendQuiet
    /\ GovQuiet
    /\ EvQuiet
    /\ usage = UsageIdle
    /\ rc = RcIdle
    /\ sse = SseIdle
    /\ wrap = WrapIdle
    /\ fn = [op |-> "count_tokens", encoders |-> {}, log |-> <<>>]

CountTokens(text, model, load_ok) ==
    /\ fn.op = "count_tokens"
    /\ Len(fn.log) < MaxCountCalls
    /\ LET r == count_tokens(fn.encoders, text, model, load_ok)
       IN  fn' = [fn EXCEPT !.encoders = r.encoders,
                            !.log = Append(@, [text |-> text, model |-> model,
                                               result |-> r.result])]
    /\ UNCHANGED restFn

NextTokens ==
    \E text \in {t \in Texts : WellFormedText(t)}, model \in CountModels, load_ok \in BOOLEAN :
        CountTokens(text, model, load_ok)

SpecTokens == InitTokens /\ [][NextTokens]_vars

\* C32: two calls of count_tokens with the same text and model return the same
\* non-negative integer, whatever happened between them
C32_CountTokensDeterministic ==
    fn.op = "count_tokens" =>
        \A i, j \in 1..Len(fn.log) :
            /\ fn.log[i].result >= 0
            /\ (fn.log[i].text = fn.log[j].text /\ fn.log[i].model = fn.log[j].model)
                   => fn.log[i].result = fn.log[j].result

\* the router answered a POST /evaluate whose body has a clean idea and no
\* request_id
AnsweredWithoutRequestId(g) ==
    /\ g.pc = "done"
    /\ AnsweredByRouter(g)
    /\ g.method = "POST"
    /\ g.path = "/evaluate"
    /\ g.sanitize = "ok"
    /\ ~g.body_request_id

\* C33: a POST to evaluate whose body has no request_id is accepted: the handler
\* generates an id, starts the background workflow under it and returns it
C33_MissingRequestIdIsGenerated ==
    AnsweredWithoutRequestId(gov) => (gov.status = 200 /\ gov.workflow_started)

\* C34: record_cost_event returns the id of the persisted event whenever it
\* persists one, also without a user id, and returns None only when no event
\* was written
C34_PersistedEventIdReturned ==
    [][/\ (Len(ledger') > Len(ledger)) => lastSpend'.result = "id"
       /\ (lastSpend'.op = "record_cost_event" /\ lastSpend'.result = "None")
              => ledger' = ledger]_vars

\* can_user_afford_this_request returned for this request, and returned not-allowed
BudgetDenied(g) == g.budget_checked /\ ~g.budget_allowed /\ ~g.budget_raised

\* C35: a governed request whose budget check returned not-allowed is answered
\* with status 429 and the X-Budget-Exceeded header, is never handed to
\* call_next, and leaves budgets and ledger as they were
C35_DeniedRequestEndsInBudgetDenied ==
    [][BudgetDenied(gov') =>
          /\ gov'.status = 429
          /\ gov'.resp_budget_exceeded
          /\ gov'.stages = <<"cost">>
          /\ ~gov'.workflow_started
          /\ budgets' = budgets
          /\ ledger' = ledger]_vars

C35_Witness ==
    /\ BudgetDenied(gov)
    /\ gov.pc = "done"
    /\ gov.token_user = "u1"
    /\ gov.db_fault = "none"
    /\ gov.status = 429

(***************************************************************************)
(* The background run with the broker's async client in either condition:  *)
(* unset, as main.py leaves it, or set by init_redis ("Call at FastAPI     *)
(* startup", event_broker_redis.py).                                       *)
(***************************************************************************)
Sentinel == Event("__COMPLETE__", NoInvocation)

\* the finally block of delegate_graph_run_to_background when _redis is set:
\* the task created on the event loop publishes the sentinel when it gets to
\* run, while the daemon threads started by the worker thread may still wait
CompleteInitialised ==
    /\ wf.pc = "over"
    /\ wf' = [wf EXCEPT !.pc = "complete"]
    /\ published' = Append(published, Sentinel)
    /\ pending' = pending \cup {Sentinel}
    /\ UNCHANGED <<inv, marker, channel>>
    /\ UNCHANGED restEv

NextBackground ==
    \/ Complete
    \/ CompleteInitialised
    \/ PendingRoom /\ NodeCall
    \/ \E i \in 1..Len(inv), out \in {"returned", "raised"}, v \in Verdicts :
          PendingRoom /\ NodeReturn(i, out, v)
    \/ \E e \in pending : Deliver(e)

SpecBackground == InitEvents /\ [][NextBackground]_vars

\* C36: the complete sentinel is the last event of the channel: final_result or
\* error and every finished event are on the channel before it, and once the run
\* is complete and every publisher has run the channel ends with the sentinel
C36_SentinelIsLastOnChannel ==
    /\ (\E k \in 1..Len(channel) : channel[k] = Sentinel) => pending = {}
    /\ (wf.pc = "complete" /\ pending = {}) =>
           (channel # <<>> /\ channel[Len(channel)] = Sentinel)

(***************************************************************************)
(* record_cost_event with a database that can fail at either of its two    *)
(* commits: db.commit() after db.add(ev), and db.commit() after the budget *)
(* row was changed.                                                        *)
(***************************************************************************)
CommitFaults == {"none", "event_commit", "budget_commit"}

\* a failing first commit persists nothing; a failing second commit leaves the
\* event of the first one in the table and the budget row as it was; both
\* exceptions are re-raised
record_cost_event_on(b, events, user_id, cost_usd, fault) ==
    LET r == record_cost_event(b, events, user_id, cost_usd)
    IN  IF fault = "event_commit"
        THEN [budgets |-> b, ledger |-> events, result |-> "raise", applied |-> FALSE]
        ELSE IF fault = "budget_commit" /\ user_id # None
        THEN [budgets |-> b, ledger |-> r.ledger, result |-> "raise", applied |-> FALSE]
        ELSE r

RecordCostEventOn(u, c, fault) ==
    LET r == record_cost_event_on(budgets, ledger, u, c, fault)
    IN  /\ Len(ledger) < MaxEvents
        /\ WithinModel(r.budgets)
        /\ budgets' = r.budgets
        /\ ledger' = r.ledger
        /\ lastSpend' = SpendRecord("record_cost_event", u, c, r)
        /\ lastAfford' = NoAfford
        /\ UNCHANGED <<today>>
        /\ UNCHANGED restBud

NextLedger ==
    \/ DayTick
    \/ \E u \in UserArgs, c \in Costs \cup {NoEstimate}, fault \in CommitFaults :
          RecordCostEventOn(u, c, fault)

SpecLedger == InitBudget /\ [][NextLedger]_vars

\* C37: record_cost_event is atomic: whenever an event of a user is persisted the
\* user's budget is debited by the same call, also when the call fails
C37_EventAndDebitTogether ==
    [][(Len(ledger') > Len(ledger) /\ lastSpend'.user # None) => lastSpend'.applied]_vars

\* a top-level wrapped call that published its started event and has ended
EndedAnnounced(i) ==
    /\ inv[i].top_level
    /\ ~Running(i)
    /\ Count(published, "agent_started", i) = 1

\* C38: every top-level wrapped crew call that published started publishes
\* finished with the same invocation id when it ends, whether it returned or
\* raised, and its context's marker is restored, so that the next wrapped call
\* there is top-level again
C38_FinishedPublishedAndMarkerRestored ==
    \A i \in 1..Len(inv) :
        /\ EndedAnnounced(i) =>
              /\ Count(published, "agent_finished", i) = 1
              /\ marker[inv[i].ctx] # i
              /\ \A j \in (i + 1)..Len(inv) :
                    (inv[j].ctx = inv[i].ctx /\ inv[j].parent = inv[i].parent)
                        => inv[j].top_level
        /\ (inv[i].top_level /\ Running(i)) => Count(published, "agent_finished", i) = 0

C38_Witness ==
    \E i, j \in 1..Len(inv) :
        /\ i < j
        /\ EndedAnnounced(i)
        /\ inv[i].pc = "returned"
        /\ inv[j].ctx = inv[i].ctx
        /\ EndedAnnounced(j)
        /\ inv[j].pc = "raised"
        /\ Count(published, "agent_finished", j) = 1

(***************************************************************************)
(* CrewFactory: the crew cache and the instrumentation of cached crews     *)
(* (agents/crews/crew_factory.py).  The graph nodes call get_*_crew on the *)
(* worker threads of concurrent requests.  An instance is known by its     *)
(* number; layers[c] counts how many times the callable of instance c has  *)
(* been wrapped (each wrapping adds one record_agent_usage decorator and   *)
(* one injecting wrapper).                                                 *)
(***************************************************************************)
MaxGetCalls == 3

WrapThreads == {"t1", "t2"}

\* f"market_research:{effective_prompt_id or 'latest'}"
CrewKeys == {"market_research:latest", "market_research:p1"}

NoCrew == 0

ThreadIdle == [pc |-> "idle", key |-> None, crew |-> NoCrew, orig |-> 0]

restWrap == <<rlVars, raceVars, budVars, spendVars, govVars, evVars, usageVars, rcVars,
              sseVars, fnVars>>

InitWrap ==
    /\ RLQuiet
    /\ BudQuiet
    /\ SpendQuiet
    /\ GovQuiet
    /\ EvQuiet
    /\ usage = UsageIdle
    /\ rc = RcIdle
    /\ sse = SseIdle
    /\ fn = FnIdle
    /\ wrap = [pc |-> [t \in WrapThreads |-> ThreadIdle],
               _crews |-> [k \in CrewKeys |-> NoCrew],
               _wrapped_instances |-> {},
               _wrap_lock |-> None,
               layers |-> <<>>,
               calls |-> 0]

At(t, pc) == wrap.pc # <<>> /\ wrap.pc[t].pc = pc

\* get_market_research_crew: the key is computed and looked up in _crews
GetCrew(t, key) ==
    /\ At(t, "idle")
    /\ wrap.calls < MaxGetCalls
    /\ wrap' = [wrap EXCEPT !.calls = @ + 1,
                            !.pc[t] = [ThreadIdle EXCEPT !.key = key,
                                          !.pc = IF wrap._crews[key] = NoCrew
                                                 THEN "create" ELSE "read"]]
    /\ UNCHANGED restWrap

\* cls._crews[key] = Crew(agents=[agent], tasks=[task])
CreateCrew(t) ==
    /\ At(t, "create")
    /\ wrap' = [wrap EXCEPT !.layers = Append(@, 0),
                            !._crews[wrap.pc[t].key] = Len(wrap.layers) + 1,
                            !.pc[t].pc = "read"]
    /\ UNCHANGED restWrap

\* the argument cls._crews[key] of _wrap_crew_kickoff, and its first test:
\* if id(crew) in CrewFactory._wrapped_instances: return crew
CheckWrapped(t) ==
    LET crew == wrap._crews[wrap.pc[t].key]
    IN  /\ At(t, "read")
        /\ wrap' = [wrap EXCEPT !.pc[t].crew = crew,
                                !.pc[t].pc = IF crew \in wrap._wrapped_instances
                                             THEN "return" ELSE "getattr"]
        /\ UNCHANGED restWrap

\* original_callable = getattr(crew, target_name); orig_func = its __func__
GetOriginal(t) ==
    /\ At(t, "getattr")
    /\ wrap' = [wrap EXCEPT !.pc[t].orig = wrap.layers[wrap.pc[t].crew],
                            !.pc[t].pc = "lock"]
    /\ UNCHANGED restWrap

\* with CrewFactory._wrap_lock:
AcquireLock(t) ==
    /\ At(t, "lock")
    /\ wrap._wrap_lock = None
    /\ wrap' = [wrap EXCEPT !._wrap_lock = t, !.pc[t].pc = "setattr"]
    /\ UNCHANGED restWrap

\* decorated = record_agent_usage(...)(orig_func); injecting_callable =
\* _make_injecting_wrapper(decorated, ...); the wrapper is bound to the instance
\* (setattr, or the per-instance subclass when setattr is refused)
BindWrapper(t) ==
    /\ At(t, "setattr")
    /\ wrap' = [wrap EXCEPT !.layers[wrap.pc[t].crew] = wrap.pc[t].orig + 1,
                            !.pc[t].pc = "add"]
    /\ UNCHANGED restWrap

\* CrewFactory._wrapped_instances.add(id(crew)); return crew leaves the with block
MarkWrapped(t) ==
    /\ At(t, "add")
    /\ wrap' = [wrap EXCEPT !._wrapped_instances = @ \cup {wrap.pc[t].crew},
                            !._wrap_lock = None,
                            !.pc[t].pc = "return"]
    /\ UNCHANGED restWrap

\* the crew is handed to the graph node
ReturnCrew(t) ==
    /\ At(t, "return")
    /\ wrap' = [wrap EXCEPT !.pc[t] = ThreadIdle]
    /\ UNCHANGED restWrap

NextWrap ==
    \E t \in WrapThreads :
        \/ \E key \in CrewKeys : GetCrew(t, key)
        \/ CreateCrew(t)
        \/ CheckWrapped(t)
        \/ GetOriginal(t)
        \/ AcquireLock(t)
        \/ BindWrapper(t)
        \/ MarkWrapped(t)
        \/ ReturnCrew(t)

SpecWrap == InitWrap /\ [][NextWrap]_vars

\* C39: each cached crew instance is instrumented at most once, also when
\* get_*_crew is called concurrently: its callable carries exactly one usage
\* decorator and one event wrapper
C39_CrewWrappedAtMostOnce ==
    wrap.pc # <<>> => \A c \in 1..Len(wrap.layers) : wrap.layers[c] <= 1

====
